---- MODULE Spec2Model ----
(***************************************************************************)
(* A model of yamusic-dl: the authorizer's AuthSession and its main flow   *)
(* (cmd/authorizer/main.go) and the Music Client's DownloadTrack pipeline  *)
(* (pkg/yamusic/client.go).  The remote services, the human at the prompt  *)
(* and the file system are the environment: every response they can give   *)
(* is an input drawn nondeterministically by the step that consumes it.    *)
(***************************************************************************)
EXTENDS Integers, Sequences, FiniteSets, TLC

(***************************************************************************)
(* Bounds of the model.                                                    *)
(***************************************************************************)
\* hops counts the requests of one GetToken call exactly below HopCap; the
\* value HopCap stands for "HopCap or more" (the recursion itself is unbounded).
HopCap == 3
\* The number of AuthSession method calls a free caller makes (SpecSession).
MaxCalls == 2

(***************************************************************************)
(* Program constants: the endpoints.                                       *)
(***************************************************************************)
URLPassportAuth == "https://passport.yandex.ru/auth"
URLAuthStart == "https://passport.yandex.ru/registration-validations/auth/multi_step/start"
URLCommitPassword == "https://passport.yandex.ru/registration-validations/auth/multi_step/commit_password"
URLChallengeSubmit == "https://passport.yandex.ru/registration-validations/auth/challenge/submit"
URLSendPush == "https://passport.yandex.ru/registration-validations/auth/challenge/send_push"
URLChallengeCommit == "https://passport.yandex.ru/registration-validations/auth/challenge/commit"

(***************************************************************************)
(* Values the environment can supply.                                      *)
(***************************************************************************)
TrackValues == {"trkA", "trkB"}
\* Plain URLs a retpath, redirect_url or Location can name ("" : field absent).
PlainURLs == {"https://oauth.yandex.ru/a", "https://oauth.yandex.ru/b"}
\* Locations: plain ones, one carrying the token in its fragment, one carrying
\* access_token= in the query only, one that url.Parse rejects.
LocFragment == "music-application://desktop/oauth#access_token=tokA&token_type=bearer"
LocQuery == "https://oauth.yandex.ru/c?access_token=tokA"
LocBad == "%zz#access_token=tokA"
Locations == PlainURLs \cup {LocFragment, LocQuery, LocBad}

NoToken == "<none>"

VARIABLES
    \* AuthSession fields
    csrfToken, trackID, availableAuthMethods,
    \* the requests the session issued, GetToken's excepted:
    \* [url, csrf_token, track_id, client]
    requests,
    \* the last method's return value
    ret,
    \* GetToken: the URL of the pending hop ("" : no call in progress), the number
    \* of requests the running or last call issued (saturating at HopCap)
    gtURL, hops,
    \* main: position, the access token printed, the challenge type last reported
    pc, token,
    \* history: the server answered the login page with a CAPTCHA redirect; the
    \* challenge type of the last challenge/submit response; the number of requests
    \* issued when a step first failed (-1: none has); the number of calls made
    captchaSeen, chType, failedAt, calls,
    \* the AuthSession's client field; history: the last answer to a request of
    \* GetToken, with the client the request went through
    client, lastHop

authVars == <<csrfToken, trackID, availableAuthMethods, requests, ret, gtURL, hops,
              pc, token, captchaSeen, chType, failedAt, calls, client, lastHop>>

VARIABLES
    \* DownloadTrack: position; the requests issued, in order
    dpc, dlRequests,
    \* the metadata as GetTrackInfo returned it, and the display strings
    trackInfo, title, artist, albumsStr,
    \* downloadInfo["url"] and downloadInfo["key"] as received
    fileURL, decryptionKey,
    \* the deferred cleanup is registered; the temporary file encrypted_<uuid>.raw
    \* ("absent", "open", "partial": closed after a failed copy, "complete")
    deferRegistered, encryptedFile,
    \* the file at outputPath ("absent", "partial", "written"); what the call returned
    outputFile, result,
    \* history: the status of the payload response (0: none yet); the temporary
    \* file was created; io.Copy returned nil and the file was closed;
    \* DecryptAesCtr was called; it returned without error
    payloadStatus, created, copied, decryptCalled, decrypted

dlVars == <<dpc, dlRequests, trackInfo, title, artist, albumsStr, fileURL,
            decryptionKey, deferRegistered, encryptedFile, outputFile, result,
            payloadStatus, created, copied, decryptCalled, decrypted>>

VARIABLES
    \* the pure functions of internal/crypto and GetAPIQuality, called by a
    \* client in any order: the last call and the one before it, each as
    \* [fn, args, key, out, err]
    lastCall, prevCall

libVars == <<lastCall, prevCall>>

VARIABLES
    \* DownloadTrack called by two goroutines on one Client: each call's position
    \* and its two paths; the files that exist, each with the call that created
    \* it; the identifiers uuid.New has given out; the Client's fields
    workers, fileSystem, issuedIds, clientFields

conVars == <<workers, fileSystem, issuedIds, clientFields>>

vars == <<authVars, dlVars, libVars, conVars>>

(***************************************************************************)
(* Return values and request records.                                      *)
(***************************************************************************)
Absent == "<absent>"
Idle == "<idle>"

\* What a method returns: err = "" is a nil error; the other fields are those of
\* the decoded response (or the token), empty when the response lacks them.
NoRet == [err |-> "", status |-> "", state |-> "", redirect |-> "",
          challengeType |-> "", token |-> "", csrf_token |-> ""]

Failure(e) == [NoRet EXCEPT !.err = e]

\* A form-encoded POST carrying the session's csrf_token and track_id as they
\* are now.
FormPost(u) ==
    [url |-> u, csrf_token |-> csrfToken, track_id |-> trackID, client |-> client]

Min(a, b) == IF a < b THEN a ELSE b

\* Fatal logs and calls os.Exit(1): the process is over.
Fatal == "exit"

(***************************************************************************)
(* The state after construction: NewAuthSession, and a Client on which     *)
(* DownloadTrack has not been called.                                      *)
(***************************************************************************)
\* No call of a pure function has been made.
NoCall == [fn |-> "", args |-> <<>>, key |-> <<>>, out |-> <<>>, err |-> ""]

InitCalls == lastCall = NoCall /\ prevCall = NoCall

\* Two calls of DownloadTrack not yet started, on a Client as NewClient
\* returns it, in a directory that holds none of their files.
Workers == {1, 2}

NoPath == <<>>

NewClientFields ==
    [accessToken |-> "tokA", signKey |-> "k1",
     headers |-> [Authorization |-> "OAuth tokA"]]

InitWorkers ==
    /\ workers = [w \in Workers |->
                     [pc |-> "start", encryptedPath |-> NoPath, outputPath |-> NoPath]]
    /\ fileSystem = {}
    /\ issuedIds = {}
    /\ clientFields = NewClientFields

\* An http.Client: its cookie jar ("" : none) and its Timeout in seconds
\* (0 : none). NewAuthSession sets Jar and CheckRedirect and no Timeout;
\* http.DefaultClient has neither jar nor timeout.
SessionClient == [jar |-> "session jar", timeout |-> 0]
DefaultClient == [jar |-> "", timeout |-> 0]

\* No request of GetToken has been answered.
NoHop == [kind |-> "", location |-> "", body |-> "", client |-> DefaultClient]

InitSession ==
    /\ client = SessionClient
    /\ lastHop = NoHop
    /\ csrfToken = ""
    /\ trackID = ""
    /\ availableAuthMethods = <<>>
    /\ requests = <<>>
    /\ ret = NoRet
    /\ gtURL = Idle
    /\ hops = 0
    /\ token = NoToken
    /\ captchaSeen = FALSE
    /\ chType = ""
    /\ failedAt = -1
    /\ calls = 0

NoTrackInfo == [title |-> Absent, artists |-> <<>>, albums |-> <<>>]

InitClient ==
    /\ dpc = "idle"
    /\ dlRequests = <<>>
    /\ trackInfo = NoTrackInfo
    /\ title = "Unknown"
    /\ artist = "Unknown"
    /\ albumsStr = "Unknown"
    /\ fileURL = Absent
    /\ decryptionKey = Absent
    /\ deferRegistered = FALSE
    /\ encryptedFile = "absent"
    /\ outputFile = "absent"
    /\ result = [err |-> ""]
    /\ payloadStatus = 0
    /\ created = FALSE
    /\ copied = FALSE
    /\ decryptCalled = FALSE
    /\ decrypted = FALSE

(***************************************************************************)
(* The responses of the remote login service.                              *)
(***************************************************************************)
ScanErr == "<scan error>"

\* The login page: a transport error, or an HTTP response with its status,
\* whether its Location names showcaptcha, whether its body can be read, and
\* what each extractor finds in the body: the first non-empty value of a
\* literal pattern (lit), whether some literal pattern matched an empty value
\* (litEmpty), the first regular-expression match (rex), what the human types
\* (manual) and the candidate the human picks (pick).
CsrfResponses ==
    [kind : {"neterr"}, status : {200}, captcha : {FALSE}, bodyErr : {""},
     litEmpty : {FALSE}, lit : {""}, rex : {""}, manual : {""}, pick : {""}]
    \cup
    [kind : {"http"}, status : {200, 302}, captcha : BOOLEAN,
     bodyErr : {"", "gzip", "read"}, litEmpty : BOOLEAN, lit : {"", "csrfA"},
     rex : {"", "csrfB"}, manual : {"", "csrfA"}, pick : {"", "csrfB", ScanErr}]

JsonKinds == {"neterr", "readerr", "empty", "badjson", "json"}
Statuses == {"ok", "error"}

StartResponses ==
    [kind : JsonKinds \ {"json"}, status : {""}, track_id : {""},
     csrf_token : {""}, auth_methods : {<<>>}]
    \cup
    [kind : {"json"}, status : Statuses, track_id : {""} \cup TrackValues,
     csrf_token : {"", "csrfB"}, auth_methods : {<<>>, <<"password", "magic_x_token">>}]

PasswordResponses ==
    [kind : JsonKinds \ {"json"}, status : {""}, state : {""}, redirect_url : {""}]
    \cup
    [kind : {"json"}, status : Statuses, state : {"", "auth_challenge"},
     redirect_url : {""} \cup PlainURLs]

\* An empty body is a JSON syntax error for the three challenge methods.
ChallengeResponses ==
    [kind : {"neterr", "readerr", "badjson"}, status : {""}, challengeType : {""}]
    \cup
    [kind : {"json"}, status : Statuses, challengeType : {"", "push_2fa", "sms_2fa"}]

PushResponses ==
    [kind : {"neterr", "readerr", "badjson"}, status : {""}]
    \cup
    [kind : {"json"}, status : Statuses]

CommitResponses ==
    [kind : {"neterr", "readerr", "badjson"}, status : {""}, retpath : {""}]
    \cup
    [kind : {"json"}, status : Statuses, retpath : {""} \cup PlainURLs]

\* Bodies of an answer to a GetToken hop that is no 302.
BodyReadErr == "<read error>"
BodyNoToken == "<html>no token</html>"
BodyToken == "<a href='x#access_token=tokA&token_type=bearer'>"
BodyEmptyToken == "<a href='x#access_token=&token_type=bearer'>"
Bodies == {BodyReadErr, BodyNoToken, BodyToken, BodyEmptyToken}

\* A request for a URL with no scheme is refused by the client before anything
\* is sent; for any other URL the server may answer anything.
HopResponses(u) ==
    IF u = ""
    THEN [kind : {"neterr"}, location : {""}, body : {BodyNoToken}]
    ELSE [kind : {"neterr"}, location : {""}, body : {BodyNoToken}]
         \cup [kind : {"302"}, location : {""} \cup Locations, body : {BodyNoToken}]
         \cup [kind : {"303"}, location : {LocFragment}, body : {BodyNoToken}]
         \cup [kind : {"other"}, location : {""}, body : Bodies]

(***************************************************************************)
(* AuthSession.GetInitialCSRFToken                                         *)
(***************************************************************************)
\* The CAPTCHA check looking at the wrong status.
IsCaptchaWrongStatus(resp) == resp.kind = "http" /\ resp.status = 200 /\ resp.captcha

\* The CAPTCHA check: a 302 whose Location contains "showcaptcha".
IsCaptcha(resp) == resp.kind = "http" /\ resp.status = 302 /\ resp.captcha

\* What the scan of the body returns, once the body has been read.
CSRFScanReturn(resp) ==
    IF resp.lit # "" THEN NoRet
    ELSE IF resp.rex # "" THEN NoRet
    ELSE IF resp.manual # "" THEN NoRet
    ELSE IF resp.pick = ScanErr THEN Failure("failed to read choice")
    ELSE IF resp.pick # "" THEN NoRet
    ELSE Failure("failed to find CSRF token")

\* The token the scan leaves in the session: each extractor assigns what it
\* found; a literal pattern assigns even an empty value before the scan goes on.
CSRFScanToken(resp, old) ==
    IF resp.lit # "" THEN resp.lit
    ELSE IF resp.rex # "" THEN resp.rex
    ELSE IF resp.manual # "" THEN resp.manual
    ELSE IF resp.pick \notin {"", ScanErr} THEN resp.pick
    ELSE IF resp.litEmpty THEN ""
    ELSE old

CSRFReturn(resp) ==
    IF resp.kind = "neterr" THEN Failure("request failed")
    ELSE IF resp.bodyErr = "gzip" THEN Failure("gzip decoding error")
    ELSE IF resp.bodyErr = "read" THEN Failure("failed to read response body")
    ELSE CSRFScanReturn(resp)

CSRFToken(resp, old) ==
    IF resp.kind = "neterr" \/ resp.bodyErr # "" THEN old
    ELSE CSRFScanToken(resp, old)

\* The method: the page fetch, then either the fatal CAPTCHA halt (Fatal ends
\* the process inside the method, which never returns) or the scan.
GetInitialCSRFToken(resp) ==
    /\ requests' = Append(requests,
                          [url |-> URLPassportAuth, csrf_token |-> Absent,
                           track_id |-> Absent, client |-> client])
    /\ csrfToken' = IF IsCaptcha(resp) THEN csrfToken ELSE CSRFToken(resp, csrfToken)
    /\ ret' = IF IsCaptcha(resp) THEN ret ELSE CSRFReturn(resp)
    /\ UNCHANGED <<trackID, availableAuthMethods, client, lastHop>>

(***************************************************************************)
(* AuthSession.StartAuth                                                   *)
(***************************************************************************)
StartAuthReturn(resp) ==
    CASE resp.kind = "neterr" -> Failure("request failed")
      [] resp.kind = "readerr" -> Failure("failed to read response")
      [] resp.kind = "empty" ->
            Failure("empty response received, possible CSRF token issue")
      [] resp.kind = "badjson" -> Failure("failed to parse response")
      [] OTHER -> [NoRet EXCEPT !.status = resp.status,
                                !.csrf_token = resp.csrf_token]

StartAuthTrackID(resp, old) ==
    IF resp.kind = "json" /\ resp.track_id # "" THEN resp.track_id ELSE old

StartAuthMethods(resp, old) ==
    IF resp.kind = "json" /\ Len(resp.auth_methods) > 0 THEN resp.auth_methods ELSE old

\* StartAuth taking the session's token from the response's csrf_token.
StartAuthCsrfFromResponse(resp, old) ==
    IF resp.kind = "json" /\ resp.csrf_token # "" THEN resp.csrf_token ELSE old

\* The response's csrf_token is decoded and never stored.
StartAuthCsrfToken(resp, old) == old

StartAuth(resp) ==
    /\ requests' = Append(requests,
                          [url |-> URLAuthStart, csrf_token |-> csrfToken,
                           track_id |-> Absent, client |-> client])
    /\ ret' = StartAuthReturn(resp)
    /\ trackID' = StartAuthTrackID(resp, trackID)
    /\ availableAuthMethods' = StartAuthMethods(resp, availableAuthMethods)
    /\ csrfToken' = StartAuthCsrfToken(resp, csrfToken)
    /\ UNCHANGED <<client, lastHop>>

(***************************************************************************)
(* AuthSession.SubmitPassword, SubmitChallenge, SendPush, CommitChallenge  *)
(***************************************************************************)
\* The requests each method sends; none of the four checks the session's
\* fields before sending.
SubmitPasswordRequests == Append(requests, FormPost(URLCommitPassword))

SubmitChallengeRequests == Append(requests, FormPost(URLChallengeSubmit))

SendPushRequests == Append(requests, FormPost(URLSendPush))

CommitChallengeRequests == Append(requests, FormPost(URLChallengeCommit))

TransportReturn(resp) ==
    CASE resp.kind = "neterr" -> Failure("request failed")
      [] resp.kind = "readerr" -> Failure("failed to read response")
      [] OTHER -> Failure("failed to parse response")

SubmitPasswordReturn(resp) ==
    CASE resp.kind = "empty" ->
            Failure("empty response received, possible password error")
      [] resp.kind = "json" ->
            [NoRet EXCEPT !.status = resp.status, !.state = resp.state,
                          !.redirect = resp.redirect_url]
      [] OTHER -> TransportReturn(resp)

\* SubmitPassword dropping the track when the password step fails.
SubmitPasswordDropsTrack(resp) ==
    /\ requests' = SubmitPasswordRequests
    /\ ret' = SubmitPasswordReturn(resp)
    /\ trackID' = IF SubmitPasswordReturn(resp).err # "" THEN "" ELSE trackID
    /\ UNCHANGED <<csrfToken, availableAuthMethods, client, lastHop>>

SubmitPassword(resp) ==
    /\ requests' = SubmitPasswordRequests
    /\ ret' = SubmitPasswordReturn(resp)
    /\ UNCHANGED <<csrfToken, trackID, availableAuthMethods, client, lastHop>>

SubmitChallengeReturn(resp) ==
    IF resp.kind = "json"
    THEN [NoRet EXCEPT !.status = resp.status, !.challengeType = resp.challengeType]
    ELSE TransportReturn(resp)

SubmitChallenge(resp) ==
    /\ requests' = SubmitChallengeRequests
    /\ ret' = SubmitChallengeReturn(resp)
    /\ UNCHANGED <<csrfToken, trackID, availableAuthMethods, client, lastHop>>

SendPushReturn(resp) ==
    IF resp.kind = "json" THEN [NoRet EXCEPT !.status = resp.status]
    ELSE TransportReturn(resp)

SendPush(resp) ==
    /\ requests' = SendPushRequests
    /\ ret' = SendPushReturn(resp)
    /\ UNCHANGED <<csrfToken, trackID, availableAuthMethods, client, lastHop>>

CommitChallengeReturn(resp) ==
    IF resp.kind = "json"
    THEN [NoRet EXCEPT !.status = resp.status, !.redirect = resp.retpath]
    ELSE TransportReturn(resp)

CommitChallenge(resp) ==
    /\ requests' = CommitChallengeRequests
    /\ ret' = CommitChallengeReturn(resp)
    /\ UNCHANGED <<csrfToken, trackID, availableAuthMethods, client, lastHop>>

(***************************************************************************)
(* AuthSession.GetToken: one action per request of the recursion.          *)
(***************************************************************************)
ContainsAccessToken(loc) == loc \in {LocFragment, LocQuery, LocBad}

\* values.Get("access_token") of the parsed fragment: "" when the fragment has
\* no such key.
FragmentToken(loc) == IF loc = LocFragment THEN "tokA" ELSE ""

\* The text between the first "access_token=" and the next "&".
BodyTokenOf(body) == IF body = BodyToken THEN "tokA" ELSE ""

\* The hop recurses: a 302 whose Location does not contain "access_token=".
HopFollows(resp) == resp.kind = "302" /\ ~ContainsAccessToken(resp.location)

HopReturn(resp) ==
    CASE resp.kind = "neterr" -> Failure("request failed")
      [] resp.kind = "302" ->
            IF resp.location = LocBad THEN Failure("failed to parse URL")
            ELSE [NoRet EXCEPT !.token = FragmentToken(resp.location)]
      [] OTHER ->
            IF resp.body = BodyReadErr THEN Failure("failed to read response")
            ELSE IF resp.body \in {BodyToken, BodyEmptyToken}
                 THEN [NoRet EXCEPT !.token = BodyTokenOf(resp.body)]
                 ELSE Failure("access token not found")

\* The hop counter after one more request.
HopCount(n) == Min(n + 1, HopCap)

\* GetToken sending through a client of its own.
HopClientDefault(c) == DefaultClient

\* s.client.Do(req)
HopClient(c) == c

GetTokenHop(resp) ==
    /\ lastHop' = [kind |-> resp.kind, location |-> resp.location,
                   body |-> resp.body, client |-> HopClient(client)]
    /\ hops' = IF gtURL = "" THEN hops ELSE HopCount(hops)
    /\ gtURL' = IF HopFollows(resp) THEN resp.location ELSE Idle
    /\ ret' = IF HopFollows(resp) THEN ret ELSE HopReturn(resp)
    /\ UNCHANGED <<csrfToken, trackID, availableAuthMethods, requests, client>>

(***************************************************************************)
(* main of the authorizer.                                                 *)
(***************************************************************************)
AfterCSRF(r) == IF r.err # "" THEN Fatal ELSE "StartAuth"

\* main without the status check after StartAuth.
AfterStartAuthNoStatus(r) == IF r.err # "" THEN Fatal ELSE "SubmitPassword"

AfterStartAuth(r) ==
    IF r.err # "" THEN Fatal
    ELSE IF r.status # "ok" THEN Fatal
    ELSE "SubmitPassword"

\* main entering the challenge whatever the state of the password response.
AfterPasswordAlwaysChallenge(r) ==
    IF r.err # "" THEN Fatal
    ELSE IF r.status # "ok" THEN Fatal
    ELSE "SubmitChallenge"

AfterPassword(r) ==
    IF r.err # "" THEN Fatal
    ELSE IF r.status # "ok" THEN Fatal
    ELSE IF r.state = "auth_challenge" THEN "SubmitChallenge"
    ELSE "GetToken"

\* main sending the push whatever the challenge type.
AfterChallengeAnyType(r) ==
    IF r.err # "" THEN Fatal
    ELSE IF r.status # "ok" THEN Fatal
    ELSE "SendPush"

AfterChallenge(r) ==
    IF r.err # "" THEN Fatal
    ELSE IF r.status # "ok" THEN Fatal
    ELSE IF r.challengeType = "push_2fa" THEN "SendPush"
    ELSE Fatal

\* main committing the challenge whatever the status of the push.
AfterPushAnyStatus(r) == IF r.err # "" THEN Fatal ELSE "CommitChallenge"

AfterPush(r) ==
    IF r.err # "" THEN Fatal
    ELSE IF r.status # "ok" THEN Fatal
    ELSE "CommitChallenge"

AfterCommit(r) ==
    IF r.err # "" THEN Fatal
    ELSE IF r.status # "ok" THEN Fatal
    ELSE "GetToken"

AfterGetToken(r) == IF r.err # "" THEN Fatal ELSE "done"

\* The requests issued so far.
Total == Len(requests) + hops

\* History: the step that just ran failed (an error, or a status other than ok
\* from a step whose response has one).
Failed(r, hasStatus) == r.err # "" \/ (hasStatus /\ r.status # "ok")

NoteFailure(failed) ==
    failedAt' = IF failedAt = -1 /\ failed THEN Len(requests') + hops' ELSE failedAt

MainGetInitialCSRFToken ==
    /\ pc = "GetInitialCSRFToken"
    /\ \E resp \in CsrfResponses :
          /\ GetInitialCSRFToken(resp)
          /\ captchaSeen' = (resp.kind = "http" /\ resp.status = 302 /\ resp.captcha)
          /\ pc' = IF IsCaptcha(resp) THEN Fatal ELSE AfterCSRF(ret')
          /\ UNCHANGED <<gtURL, hops, token, chType, calls>>
          /\ NoteFailure(captchaSeen' \/ CSRFReturn(resp).err # "")
    /\ UNCHANGED <<dlVars, libVars, conVars>>

MainStartAuth ==
    /\ pc = "StartAuth"
    /\ \E resp \in StartResponses :
          /\ StartAuth(resp)
          /\ pc' = AfterStartAuth(ret')
          /\ UNCHANGED <<gtURL, hops, token, chType, calls, captchaSeen>>
          /\ NoteFailure(Failed(ret', TRUE))
    /\ UNCHANGED <<dlVars, libVars, conVars>>

MainSubmitPassword ==
    /\ pc = "SubmitPassword"
    /\ \E resp \in PasswordResponses :
          /\ SubmitPassword(resp)
          /\ pc' = AfterPassword(ret')
          /\ gtURL' = IF pc' = "GetToken" THEN ret'.redirect ELSE gtURL
          /\ UNCHANGED <<hops, token, chType, calls, captchaSeen>>
          /\ NoteFailure(Failed(ret', TRUE))
    /\ UNCHANGED <<dlVars, libVars, conVars>>

MainSubmitChallenge ==
    /\ pc = "SubmitChallenge"
    /\ \E resp \in ChallengeResponses :
          /\ SubmitChallenge(resp)
          /\ chType' = IF resp.kind = "json" THEN resp.challengeType ELSE chType
          /\ pc' = AfterChallenge(ret')
          /\ UNCHANGED <<gtURL, hops, token, calls, captchaSeen>>
          /\ NoteFailure(Failed(ret', TRUE) \/ chType' # "push_2fa")
    /\ UNCHANGED <<dlVars, libVars, conVars>>

MainSendPush ==
    /\ pc = "SendPush"
    /\ \E resp \in PushResponses :
          /\ SendPush(resp)
          /\ pc' = AfterPush(ret')
          /\ UNCHANGED <<gtURL, hops, token, chType, calls, captchaSeen>>
          /\ NoteFailure(Failed(ret', TRUE))
    /\ UNCHANGED <<dlVars, libVars, conVars>>

MainCommitChallenge ==
    /\ pc = "CommitChallenge"
    /\ \E resp \in CommitResponses :
          /\ CommitChallenge(resp)
          /\ pc' = AfterCommit(ret')
          /\ gtURL' = IF pc' = "GetToken" THEN ret'.redirect ELSE gtURL
          /\ UNCHANGED <<hops, token, chType, calls, captchaSeen>>
          /\ NoteFailure(Failed(ret', TRUE))
    /\ UNCHANGED <<dlVars, libVars, conVars>>

MainGetToken ==
    /\ pc = "GetToken"
    /\ \E resp \in HopResponses(gtURL) :
          /\ GetTokenHop(resp)
          /\ pc' = IF gtURL' # Idle THEN pc ELSE AfterGetToken(ret')
          /\ token' = IF pc' = "done" THEN ret'.token ELSE token
          /\ UNCHANGED <<chType, calls, captchaSeen>>
          /\ NoteFailure(gtURL' = Idle /\ Failed(ret', FALSE))
    /\ UNCHANGED <<dlVars, libVars, conVars>>

InitAuth == InitSession /\ InitClient /\ InitCalls /\ InitWorkers /\ pc = "GetInitialCSRFToken"

NextAuth ==
    \/ MainGetInitialCSRFToken
    \/ MainStartAuth
    \/ MainSubmitPassword
    \/ MainSubmitChallenge
    \/ MainSendPush
    \/ MainCommitChallenge
    \/ MainGetToken

\* The authorizer, from NewAuthSession to its exit.
SpecAuth == InitAuth /\ [][NextAuth]_vars

\* The authorizer is a sequential program: it takes its next step whenever it
\* has one.
FairAuth == SpecAuth /\ WF_vars(NextAuth)

(***************************************************************************)
(* The AuthSession used by an arbitrary caller: any method, in any order,  *)
(* one call at a time (a call of GetToken runs to its return).             *)
(***************************************************************************)
CanCall == pc = "api" /\ gtURL = Idle /\ calls < MaxCalls

ApiFrame == UNCHANGED <<gtURL, hops, token, failedAt, pc, captchaSeen, chType>>

ApiGetInitialCSRFToken ==
    /\ CanCall
    /\ calls' = calls + 1
    /\ \E resp \in CsrfResponses :
          /\ GetInitialCSRFToken(resp)
          /\ captchaSeen' = (captchaSeen \/ (resp.kind = "http" /\ resp.status = 302
                                              /\ resp.captcha))
          /\ pc' = IF IsCaptcha(resp) THEN Fatal ELSE pc
    /\ UNCHANGED <<gtURL, hops, token, failedAt, chType>>
    /\ UNCHANGED <<dlVars, libVars, conVars>>

ApiStartAuth ==
    /\ CanCall
    /\ calls' = calls + 1
    /\ \E resp \in StartResponses : StartAuth(resp)
    /\ ApiFrame
    /\ UNCHANGED <<dlVars, libVars, conVars>>

ApiSubmitPassword ==
    /\ CanCall
    /\ calls' = calls + 1
    /\ \E resp \in PasswordResponses : SubmitPassword(resp)
    /\ ApiFrame
    /\ UNCHANGED <<dlVars, libVars, conVars>>

ApiSubmitChallenge ==
    /\ CanCall
    /\ calls' = calls + 1
    /\ \E resp \in ChallengeResponses :
          /\ SubmitChallenge(resp)
          /\ chType' = IF resp.kind = "json" THEN resp.challengeType ELSE chType
    /\ UNCHANGED <<gtURL, hops, token, failedAt, pc, captchaSeen>>
    /\ UNCHANGED <<dlVars, libVars, conVars>>

ApiSendPush ==
    /\ CanCall
    /\ calls' = calls + 1
    /\ \E resp \in PushResponses : SendPush(resp)
    /\ ApiFrame
    /\ UNCHANGED <<dlVars, libVars, conVars>>

ApiCommitChallenge ==
    /\ CanCall
    /\ calls' = calls + 1
    /\ \E resp \in CommitResponses : CommitChallenge(resp)
    /\ ApiFrame
    /\ UNCHANGED <<dlVars, libVars, conVars>>

\* GetToken(retpath) is entered; its requests follow one by one.
ApiGetToken ==
    /\ CanCall
    /\ calls' = calls + 1
    /\ \E retpath \in {""} \cup PlainURLs : gtURL' = retpath
    /\ hops' = 0
    /\ UNCHANGED <<csrfToken, trackID, availableAuthMethods, requests, ret, token,
                   failedAt, pc, captchaSeen, chType, client, lastHop>>
    /\ UNCHANGED <<dlVars, libVars, conVars>>

ApiGetTokenHop ==
    /\ pc = "api"
    /\ gtURL # Idle
    /\ \E resp \in HopResponses(gtURL) : GetTokenHop(resp)
    /\ UNCHANGED <<token, failedAt, pc, captchaSeen, chType, calls>>
    /\ UNCHANGED <<dlVars, libVars, conVars>>

InitApi == InitSession /\ InitClient /\ InitCalls /\ InitWorkers /\ pc = "api"

NextSession ==
    \/ ApiGetInitialCSRFToken
    \/ ApiStartAuth
    \/ ApiSubmitPassword
    \/ ApiSubmitChallenge
    \/ ApiSendPush
    \/ ApiCommitChallenge
    \/ ApiGetToken
    \/ ApiGetTokenHop

SpecSession == InitApi /\ [][NextSession]_vars

(***************************************************************************)
(* Properties of the authentication session.                               *)
(***************************************************************************)
Sent(u) == \E i \in 1..Len(requests) : requests[i].url = u

\* C1: SubmitPassword on a session whose CSRF token has not been acquired is
\* rejected without a commit_password POST: every commit_password POST that
\* was sent carries a non-empty csrf_token.
C1_PasswordNeedsCSRF ==
    \A i \in 1..Len(requests) :
        requests[i].url = URLCommitPassword => requests[i].csrf_token # ""

\* C2: SubmitChallenge while trackID is unset is rejected without a
\* challenge/submit POST: every challenge/submit POST that was sent carries a
\* non-empty track_id.
C2_ChallengeNeedsTrackID ==
    \A i \in 1..Len(requests) :
        requests[i].url = URLChallengeSubmit => requests[i].track_id # ""

\* C3: GetToken follows a bounded number of redirects: for every behaviour of
\* the server a call of GetToken that is running eventually returns.
C3_GetTokenTerminates == (pc = "GetToken") ~> (pc # "GetToken")

\* C8: the authorizer fails fast: once a step has failed (an error, a status
\* other than ok, an unsupported challenge) the process is over, no request
\* is issued after the failing one, no access token is reported, and no step's
\* request is ever sent twice.
C8_FailFast ==
    /\ failedAt # -1 => pc = Fatal /\ token = NoToken /\ Total = failedAt
    /\ \A i, j \in 1..Len(requests) : i # j => requests[i].url # requests[j].url

C8_Witness ==
    /\ failedAt = 4
    /\ pc = Fatal
    /\ ret.err = ""
    /\ ret.status = "error"

C10_UnsupportedChallengeFails ==
    Sent(URLChallengeSubmit) /\ chType # "push_2fa" =>
        /\ pc = Fatal
        /\ ~Sent(URLSendPush)
        /\ ~Sent(URLChallengeCommit)
        /\ gtURL = Idle
        /\ hops = 0
        /\ token = NoToken

C10_Witness ==
    /\ Sent(URLChallengeSubmit)
    /\ chType = "sms_2fa"
    /\ ret.status = "ok"
    /\ pc = Fatal

(***************************************************************************)
(* The Music Client: Client.DownloadTrack, one action per request or file  *)
(* operation, each with the code up to the next one.                       *)
(***************************************************************************)
Missing == "<missing>"
NotString == "<not a string>"
PayloadURL == "https://cdn.example/get-mp3/file"
Key16 == "000102030405060708090a0b0c0d0e0f"
KeyShort == "00ff"
KeyNotHex == "zz0102030405060708090a0b0c0d0e0f"

TrackInfoResponses ==
    [kind : {"neterr", "status", "invalid"}, title : {Absent}, artists : {<<>>},
     albums : {<<>>}]
    \cup
    [kind : {"ok"}, title : {Absent, "Song", "Unknown"},
     artists : {<<>>, <<"A">>, <<"A", "B">>},
     albums : {<<>>, <<"X">>, <<"X", "Y">>}]

FallbackResponses ==
    [kind : {"fail"}, title : {""}, artist : {""}, album : {""}]
    \cup
    [kind : {"ok"}, title : {"", "SongF"}, artist : {"", "AF"}, album : {"", "XF"}]

DownloadInfoResponses ==
    [kind : {"neterr", "status", "badjson", "format"}, url : {Missing}, key : {Missing}]
    \cup
    [kind : {"ok"}, url : {Missing, NotString, "", PayloadURL},
     key : {Missing, NotString, "", KeyNotHex, KeyShort, Key16}]

PayloadStatuses == {200, 206, 302, 404, 500}

\* strings.Join
RECURSIVE Join(_, _)
Join(names, sep) ==
    IF Len(names) = 0 THEN ""
    ELSE IF Len(names) = 1 THEN names[1]
    ELSE names[1] \o sep \o Join(Tail(names), sep)

\* The display strings after the primary lookup.
PrimaryTitle(info) == IF info.title # Absent THEN info.title ELSE "Unknown"

\* The artists joined like the albums.
PrimaryArtistComma(info) ==
    IF Len(info.artists) > 0 THEN Join(info.artists, ", ") ELSE "Unknown"

PrimaryArtist(info) ==
    IF Len(info.artists) > 0 THEN Join(info.artists, " & ") ELSE "Unknown"

PrimaryAlbums(info) ==
    IF Len(info.albums) > 0 THEN Join(info.albums, ", ") ELSE "Unknown"

NeedsFallback(info) ==
    \/ PrimaryTitle(info) = "Unknown"
    \/ PrimaryArtist(info) = "Unknown"
    \/ (Len(info.albums) = 0 /\ PrimaryAlbums(info) = "Unknown")

\* A field after the fallback: replaced only when it is still "Unknown" and the
\* fallback found a value.
FallbackFill(old, found) == IF old = "Unknown" /\ found # "" THEN found ELSE old

\* A cleanup that removes only a completely written file.
CleanupCompleteOnly(file) == IF file = "complete" THEN "absent" ELSE file

\* The deferred cleanup: os.Stat finds the file, os.Remove deletes it.  The
\* removal of a closed file the call itself created is taken to succeed; the
\* code does not look at its error.
DeferredCleanup(file) == IF file # "absent" THEN "absent" ELSE file

\* A return of DownloadTrack: the deferred functions run if they were
\* registered; file is the temporary file as the returning statement leaves it.
Return(err, file) ==
    /\ dpc' = "returned"
    /\ result' = [err |-> err]
    /\ encryptedFile' = IF deferRegistered THEN DeferredCleanup(file) ELSE file

\* A type assertion whose ok is not looked at for a missing key.
IsStringLoose(v) == v # NotString

\* downloadInfo[...].(string)
IsString(v) == v \notin {Missing, NotString}

\* A status check that refuses server errors only.
StatusRejectedServerOnly(code) == code >= 500

\* The payload response is refused.
StatusRejected(code) == code # 200

\* The byte length hex.DecodeString gives, -1 when it fails.
HexKeyLen(k) ==
    CASE k = Key16 -> 16
      [] k = KeyShort -> 2
      [] k = "" -> 0
      [] OTHER -> -1

\* DecryptAesCtr returns an error.
DecryptFails(k) == HexKeyLen(k) \notin {16, 24, 32}

DT_GetTrackInfo ==
    /\ dpc = "idle"
    /\ dlRequests' = Append(dlRequests, "tracks")
    /\ \E resp \in TrackInfoResponses :
          IF resp.kind # "ok"
          THEN /\ Return("error getting track metadata", encryptedFile)
               /\ UNCHANGED <<trackInfo, title, artist, albumsStr>>
          ELSE /\ trackInfo' = [title |-> resp.title, artists |-> resp.artists,
                                albums |-> resp.albums]
               /\ title' = PrimaryTitle(trackInfo')
               /\ artist' = PrimaryArtist(trackInfo')
               /\ albumsStr' = PrimaryAlbums(trackInfo')
               /\ dpc' = IF NeedsFallback(trackInfo') THEN "Fallback"
                         ELSE "GetDownloadInfo"
               /\ UNCHANGED <<result, encryptedFile>>
    /\ UNCHANGED <<fileURL, decryptionKey, deferRegistered, outputFile,
                   payloadStatus, created, copied, decryptCalled, decrypted>>
    /\ UNCHANGED <<authVars, libVars, conVars>>

DT_Fallback ==
    /\ dpc = "Fallback"
    /\ dlRequests' = Append(dlRequests, "tracks/<id>")
    /\ \E resp \in FallbackResponses :
          /\ title' = FallbackFill(title, resp.title)
          /\ artist' = FallbackFill(artist, resp.artist)
          /\ albumsStr' = FallbackFill(albumsStr, resp.album)
    /\ dpc' = "GetDownloadInfo"
    /\ UNCHANGED <<trackInfo, fileURL, decryptionKey, deferRegistered, encryptedFile,
                   outputFile, result, payloadStatus, created, copied,
                   decryptCalled, decrypted>>
    /\ UNCHANGED <<authVars, libVars, conVars>>

\* GetDownloadInfo, the two type assertions and the registration of the cleanup.
DT_GetDownloadInfo ==
    /\ dpc = "GetDownloadInfo"
    /\ dlRequests' = Append(dlRequests, "get-file-info")
    /\ \E resp \in DownloadInfoResponses :
          IF resp.kind # "ok"
          THEN /\ Return("error getting download information", encryptedFile)
               /\ UNCHANGED <<fileURL, decryptionKey, deferRegistered>>
          ELSE /\ fileURL' = resp.url
               /\ decryptionKey' = resp.key
               /\ IF ~IsString(resp.url)
                  THEN /\ Return("download URL not found", encryptedFile)
                       /\ UNCHANGED deferRegistered
                  ELSE IF ~IsString(resp.key)
                  THEN /\ Return("decryption key not found", encryptedFile)
                       /\ UNCHANGED deferRegistered
                  ELSE /\ deferRegistered' = TRUE
                       /\ dpc' = "PrepareDir"
                       /\ UNCHANGED <<result, encryptedFile>>
    /\ UNCHANGED <<trackInfo, title, artist, albumsStr, outputFile, payloadStatus,
                   created, copied, decryptCalled, decrypted>>
    /\ UNCHANGED <<authVars, libVars, conVars>>

\* os.Getwd when no directory was given, then os.MkdirAll.
DT_PrepareDir ==
    /\ dpc = "PrepareDir"
    /\ \E outcome \in {"ok", "getwd", "mkdir"} :
          IF outcome = "getwd"
          THEN Return("error getting current directory", encryptedFile)
          ELSE IF outcome = "mkdir"
          THEN Return("error creating directory", encryptedFile)
          ELSE /\ dpc' = "Get"
               /\ UNCHANGED <<result, encryptedFile>>
    /\ UNCHANGED <<dlRequests, trackInfo, title, artist, albumsStr, fileURL,
                   decryptionKey, deferRegistered, outputFile, payloadStatus,
                   created, copied, decryptCalled, decrypted>>
    /\ UNCHANGED <<authVars, libVars, conVars>>

\* http.Get(fileURL) and the status check: status 0 is a transport error, the
\* only outcome for a URL without a scheme.
DT_Get ==
    /\ dpc = "Get"
    /\ dlRequests' = IF fileURL = "" THEN dlRequests ELSE Append(dlRequests, "payload")
    /\ \E status \in (IF fileURL = "" THEN {0} ELSE {0} \cup PayloadStatuses) :
          /\ payloadStatus' = status
          /\ IF status = 0
             THEN Return("error downloading file", encryptedFile)
             ELSE IF StatusRejected(status)
             THEN Return("error downloading file, status", encryptedFile)
             ELSE /\ dpc' = "Create"
                  /\ UNCHANGED <<result, encryptedFile>>
    /\ UNCHANGED <<trackInfo, title, artist, albumsStr, fileURL, decryptionKey,
                   deferRegistered, outputFile, created, copied, decryptCalled,
                   decrypted>>
    /\ UNCHANGED <<authVars, libVars, conVars>>

\* os.Create(encryptedPath)
DT_Create ==
    /\ dpc = "Create"
    /\ \E ok \in BOOLEAN :
          IF ok
          THEN /\ encryptedFile' = "open"
               /\ created' = TRUE
               /\ dpc' = "Copy"
               /\ UNCHANGED result
          ELSE /\ Return("error creating temporary file", encryptedFile)
               /\ UNCHANGED created
    /\ UNCHANGED <<dlRequests, trackInfo, title, artist, albumsStr, fileURL,
                   decryptionKey, deferRegistered, outputFile, payloadStatus,
                   copied, decryptCalled, decrypted>>
    /\ UNCHANGED <<authVars, libVars, conVars>>

\* The copy's error dropped.
AfterCopyIgnoreErr(ok) == "ReadFile"

\* The step after io.Copy and the Close of the temporary file.
AfterCopy(ok) == IF ok THEN "ReadFile" ELSE "returned"

\* io.Copy(encryptedFile, resp.Body); encryptedFile.Close()
DT_Copy ==
    /\ dpc = "Copy"
    /\ \E ok \in BOOLEAN :
          /\ copied' = ok
          /\ IF AfterCopy(ok) = "returned"
             THEN Return("error saving encrypted file", "partial")
             ELSE /\ encryptedFile' = IF ok THEN "complete" ELSE "partial"
                  /\ dpc' = AfterCopy(ok)
                  /\ UNCHANGED result
    /\ UNCHANGED <<dlRequests, trackInfo, title, artist, albumsStr, fileURL,
                   decryptionKey, deferRegistered, outputFile, payloadStatus,
                   created, decryptCalled, decrypted>>
    /\ UNCHANGED <<authVars, libVars, conVars>>

\* os.ReadFile(encryptedPath)
DT_ReadFile ==
    /\ dpc = "ReadFile"
    /\ \E ok \in BOOLEAN :
          IF ok
          THEN /\ dpc' = "Decrypt"
               /\ UNCHANGED <<result, encryptedFile>>
          ELSE Return("error reading encrypted file", encryptedFile)
    /\ UNCHANGED <<dlRequests, trackInfo, title, artist, albumsStr, fileURL,
                   decryptionKey, deferRegistered, outputFile, payloadStatus,
                   created, copied, decryptCalled, decrypted>>
    /\ UNCHANGED <<authVars, libVars, conVars>>

\* The decryption's error dropped.
AfterDecryptIgnoreErr(failed) == "WriteFile"

\* The step after DecryptAesCtr.
AfterDecrypt(failed) == IF failed THEN "returned" ELSE "WriteFile"

\* crypto.DecryptAesCtr(encryptedData, decryptionKey)
DT_Decrypt ==
    /\ dpc = "Decrypt"
    /\ decryptCalled' = TRUE
    /\ decrypted' = ~DecryptFails(decryptionKey)
    /\ IF AfterDecrypt(DecryptFails(decryptionKey)) = "returned"
       THEN Return("error decrypting file", encryptedFile)
       ELSE /\ dpc' = "WriteFile"
            /\ UNCHANGED <<result, encryptedFile>>
    /\ UNCHANGED <<dlRequests, trackInfo, title, artist, albumsStr, fileURL,
                   decryptionKey, deferRegistered, outputFile, payloadStatus,
                   created, copied>>
    /\ UNCHANGED <<authVars, libVars, conVars>>

\* os.WriteFile(outputPath, decrypted, 0644): a failed write may leave a part
\* of the file behind.
DT_WriteFile ==
    /\ dpc = "WriteFile"
    /\ \E outcome \in {"written", "partial", "absent"} :
          /\ outputFile' = outcome
          /\ Return(IF outcome = "written" THEN "" ELSE "error saving decrypted file",
                    encryptedFile)
    /\ UNCHANGED <<dlRequests, trackInfo, title, artist, albumsStr, fileURL,
                   decryptionKey, deferRegistered, payloadStatus, created, copied,
                   decryptCalled, decrypted>>
    /\ UNCHANGED <<authVars, libVars, conVars>>

InitDownload == InitSession /\ InitClient /\ InitCalls /\ InitWorkers /\ pc = "api"

NextDownload ==
    \/ DT_GetTrackInfo
    \/ DT_Fallback
    \/ DT_GetDownloadInfo
    \/ DT_PrepareDir
    \/ DT_Get
    \/ DT_Create
    \/ DT_Copy
    \/ DT_ReadFile
    \/ DT_Decrypt
    \/ DT_WriteFile

\* One call of DownloadTrack on a fresh Client.
SpecDownload == InitDownload /\ [][NextDownload]_vars

(***************************************************************************)
(* Properties of DownloadTrack.                                            *)
(***************************************************************************)
PayloadRequested == \E i \in 1..Len(dlRequests) : dlRequests[i] = "payload"

NothingWritten == ~created /\ encryptedFile = "absent" /\ outputFile = "absent"

\* C4: whenever DownloadTrack has returned, on any path, the temporary
\* encrypted file of the call does not exist.
C4_TempFileRemoved == dpc = "returned" => encryptedFile = "absent"

C4_Witness ==
    /\ dpc = "returned"
    /\ created
    /\ copied
    /\ result.err = "error decrypting file"

\* C5: decryption starts only after the whole payload was copied without error
\* and the temporary file closed; the output file is written only after
\* DecryptAesCtr returned successfully; after a copy or decryption error the
\* output file is not written.
C5_PipelineOrder ==
    /\ dpc = "Decrypt" => encryptedFile = "complete"
    /\ decryptCalled => copied
    /\ dpc = "WriteFile" => decrypted
    /\ outputFile # "absent" => decryptCalled /\ decrypted
    /\ result.err \in {"error saving encrypted file", "error decrypting file"}
           => outputFile = "absent"

C5_Witness == outputFile = "written" /\ decrypted /\ copied /\ dpc = "returned"

\* C6: a downloadInfo that lacks url or key ends the download with an error:
\* no payload request, no temporary file, no output file.
C6_MissingInfoIsTerminal ==
    fileURL = Missing \/ decryptionKey = Missing =>
        /\ dpc = "returned"
        /\ result.err # ""
        /\ ~PayloadRequested
        /\ NothingWritten

C6_Witness ==
    /\ fileURL = PayloadURL
    /\ decryptionKey = Missing
    /\ dpc = "returned"
    /\ result.err = "decryption key not found"

\* C7: a payload response with a non-success status aborts the download with
\* an error before the temporary file or the output file is created.
C7_RejectedPayloadWritesNothing ==
    payloadStatus # 0 /\ payloadStatus \notin 200..299 =>
        /\ dpc = "returned"
        /\ result.err # ""
        /\ NothingWritten

C7_Witness == payloadStatus = 404 /\ dpc = "returned" /\ PayloadRequested

(***************************************************************************)
(* Frame properties of the session's fields.                               *)
(***************************************************************************)
\* The step appended a request for u to the log.
Requested(u) ==
    /\ Len(requests') = Len(requests) + 1
    /\ requests'[Len(requests')].url = u

\* C19: once the CSRF token is set, StartAuth, SubmitPassword, SubmitChallenge,
\* SendPush, CommitChallenge and GetToken leave it as it is, whatever the
\* response carries: only a step of GetInitialCSRFToken changes csrfToken.
C19_CsrfTokenFrame == [][csrfToken' # csrfToken => Requested(URLPassportAuth)]_vars

C19_Witness ==
    /\ csrfToken = "csrfA"
    /\ Len(requests) > 1
    /\ requests[Len(requests)].url = URLAuthStart
    /\ ret.err = ""
    /\ ret.csrf_token = "csrfB"

\* C20: trackID is written by StartAuth alone: a step that changes it is a
\* step of StartAuth.
C20_TrackIDFrame == [][trackID' # trackID => Requested(URLAuthStart)]_vars

C20_Witness ==
    /\ trackID = "trkA"
    /\ Sent(URLAuthStart)
    /\ Len(requests) > 1
    /\ requests[Len(requests)].url = URLCommitPassword
    /\ ret.err # ""

(***************************************************************************)
(* The pure functions: GetAPIQuality and package internal/crypto.          *)
(* Here a string is the sequence of its characters and a []byte the        *)
(* sequence of its bytes (0..255).                                         *)
(***************************************************************************)
\* The longest generated data string and ciphertext.
MaxLen == 3

\* All sequences over S of length at most n.
SeqsUpTo(S, n) == UNION {[1..m -> S] : m \in 0..n}

\* The members of a sequence.
Range(s) == {s[i] : i \in 1..Len(s)}

\* The quality names of the caller and of the API.
AudioQualityMin == <<"m", "i", "n">>
AudioQualityNormal == <<"n", "o", "r", "m", "a", "l">>
AudioQualityMax == <<"m", "a", "x">>
ApiTrackQualityLow == <<"l", "q">>
ApiTrackQualityNormal == <<"n", "q">>
ApiTrackQualityLossless == <<"l", "o", "s", "s", "l", "e", "s", "s">>

\* GetAPIQuality falling back to the normal quality.
GetAPIQualityDefaultNormal(quality) ==
    CASE quality = AudioQualityMin -> ApiTrackQualityLow
      [] quality = AudioQualityNormal -> ApiTrackQualityNormal
      [] quality = AudioQualityMax -> ApiTrackQualityLossless
      [] OTHER -> ApiTrackQualityNormal

GetAPIQuality(quality) ==
    CASE quality = AudioQualityMin -> ApiTrackQualityLow
      [] quality = AudioQualityNormal -> ApiTrackQualityNormal
      [] quality = AudioQualityMax -> ApiTrackQualityLossless
      [] OTHER -> ApiTrackQualityLossless

\* The characters "," (44) to "Z" (90) and "a" (97) to "z" (122), each run in
\* the order of its codes.
AsciiFromComma ==
    <<",", "-", ".", "/", "0", "1", "2", "3", "4", "5", "6", "7", "8", "9",
      ":", ";", "<", "=", ">", "?", "@",
      "A", "B", "C", "D", "E", "F", "G", "H", "I", "J", "K", "L", "M",
      "N", "O", "P", "Q", "R", "S", "T", "U", "V", "W", "X", "Y", "Z">>
AsciiFromLowerA ==
    <<"a", "b", "c", "d", "e", "f", "g", "h", "i", "j", "k", "l", "m",
      "n", "o", "p", "q", "r", "s", "t", "u", "v", "w", "x", "y", "z">>

\* The position of c in the sequence t.
IndexOf(t, c) == CHOOSE i \in 1..Len(t) : t[i] = c

\* The byte of a character.
CodeOf ==
    [c \in Range(AsciiFromComma) \cup Range(AsciiFromLowerA) |->
        IF c \in Range(AsciiFromComma) THEN 43 + IndexOf(AsciiFromComma, c)
        ELSE 96 + IndexOf(AsciiFromLowerA, c)]

\* []byte(s)
Bytes(s) == [i \in 1..Len(s) |-> CodeOf[s[i]]]

\* strings.Replace(s, old, new, 1) for a one-character old.
RECURSIVE ReplaceOnceFrom(_, _, _, _)
ReplaceOnceFrom(s, old, new, i) ==
    IF i > Len(s) THEN s
    ELSE IF s[i] = old THEN SubSeq(s, 1, i - 1) \o new \o SubSeq(s, i + 1, Len(s))
    ELSE ReplaceOnceFrom(s, old, new, i + 1)

ReplaceOnce(s, old, new) == ReplaceOnceFrom(s, old, new, 1)

\* strings.ReplaceAll(s, old, new) for a one-character old: every occurrence,
\* left to right.
RECURSIVE ReplaceAllIn(_, _, _, _, _)
ReplaceAllIn(s, old, new, lo, hi) ==
    IF lo > hi THEN <<>>
    ELSE IF lo = hi THEN (IF s[lo] = old THEN new ELSE <<s[lo]>>)
    ELSE LET mid == (lo + hi) \div 2
         IN  ReplaceAllIn(s, old, new, lo, mid) \o ReplaceAllIn(s, old, new, mid + 1, hi)

ReplaceAll(s, old, new) == ReplaceAllIn(s, old, new, 1, Len(s))

\* sha256.Size: the length of the digest in bytes.
DigestSize == 32

\* A hasher that starts from what the previous signature call was given.
HmacNewKeepsState(key) ==
    [key |-> Bytes(key),
     written |-> IF lastCall.fn = "GenerateSignature"
                 THEN Bytes(lastCall.args[1]) ELSE <<>>]

\* hmac.New(sha256.New, []byte(signKey)): a fresh hasher for each call.
HmacNew(key) == [key |-> Bytes(key), written |-> <<>>]

\* h.Write(p)
HmacWrite(h, p) == [h EXCEPT !.written = h.written \o p]

\* HMAC-SHA256 itself belongs to the standard library and is not computed here.
\* In its place stands a mixing function with the properties the callers rely
\* on: the digest depends on the key and on the bytes written, in their order,
\* on nothing else, and is DigestSize bytes long.
RECURSIVE AbsorbIn(_, _, _)
AbsorbIn(bytes, lo, hi) ==
    IF lo > hi THEN 0
    ELSE IF lo = hi THEN ((bytes[lo] + 1) * (lo * lo + lo + 1)) % 65521
    ELSE LET mid == (lo + hi) \div 2
         IN  (AbsorbIn(bytes, lo, mid) + AbsorbIn(bytes, mid + 1, hi)) % 65521

Absorb(bytes) == AbsorbIn(bytes, 1, Len(bytes))

\* h.Sum(nil)
HmacSum(h) ==
    LET m == (Absorb(h.key) * 257 + Absorb(h.written) * 31 + Len(h.written)) % 65521
    IN  [i \in 1..DigestSize |-> ((m + i) * (2 * i + 1) + (m \div 251)) % 256]

\* The alphabet of base64.StdEncoding.
EncodeStd ==
    <<"A", "B", "C", "D", "E", "F", "G", "H", "I", "J", "K", "L", "M",
      "N", "O", "P", "Q", "R", "S", "T", "U", "V", "W", "X", "Y", "Z",
      "a", "b", "c", "d", "e", "f", "g", "h", "i", "j", "k", "l", "m",
      "n", "o", "p", "q", "r", "s", "t", "u", "v", "w", "x", "y", "z",
      "0", "1", "2", "3", "4", "5", "6", "7", "8", "9", "+", "/">>

\* The padding character of base64.StdEncoding.
StdPadding == "="

\* The four characters of a 24-bit group.
EncodeGroup(n) ==
    <<EncodeStd[(n \div 262144) + 1], EncodeStd[((n \div 4096) % 64) + 1],
      EncodeStd[((n \div 64) % 64) + 1], EncodeStd[(n % 64) + 1]>>

\* base64.StdEncoding.EncodeToString(src), from byte i on: three bytes give
\* four characters, a last group of one or two bytes is padded to four.
RECURSIVE EncodeFrom(_, _)
EncodeFrom(src, i) ==
    LET left == Len(src) - i + 1
    IN  CASE left <= 0 -> <<>>
          [] left = 1 ->
               SubSeq(EncodeGroup(src[i] * 65536), 1, 2) \o <<StdPadding, StdPadding>>
          [] left = 2 ->
               SubSeq(EncodeGroup(src[i] * 65536 + src[i + 1] * 256), 1, 3)
                   \o <<StdPadding>>
          [] OTHER ->
               EncodeGroup(src[i] * 65536 + src[i + 1] * 256 + src[i + 2])
                   \o EncodeFrom(src, i + 3)

EncodeToString(src) == EncodeFrom(src, 1)

\* A signature with its padding left in place.
TrimRightNothing(s, cut) == s

\* strings.TrimRight(s, cutset) for a one-character cutset.
RECURSIVE TrimRight(_, _)
TrimRight(s, cut) ==
    IF s # <<>> /\ s[Len(s)] = cut THEN TrimRight(SubSeq(s, 1, Len(s) - 1), cut)
    ELSE s

GenerateSignature(dataString, signKey) ==
    LET stripped == ReplaceAll(dataString, ",", <<>>)
        h == HmacWrite(HmacNew(signKey), Bytes(stripped))
        sign == EncodeToString(HmacSum(h))
    IN  TrimRight(sign, StdPadding)

\* GenerateSignatureFromParams with the timestamp and the track exchanged.
GenerateSignatureFromParamsSwapped(ts, trackId, quality, codecs, transports, signKey) ==
    GenerateSignature(trackId \o ts \o quality \o codecs \o transports, signKey)

GenerateSignatureFromParams(ts, trackId, quality, codecs, transports, signKey) ==
    GenerateSignature(ts \o trackId \o quality \o codecs \o transports, signKey)

\* api.Codecs and api.Transport.
Codecs ==
    <<"f", "l", "a", "c", ",", "f", "l", "a", "c", "-", "m", "p", "4", ",",
      "m", "p", "3", ",", "a", "a", "c", ",", "h", "e", "-", "a", "a", "c", ",",
      "a", "a", "c", "-", "m", "p", "4", ",", "h", "e", "-", "a", "a", "c", "-",
      "m", "p", "4">>
Transport == <<"e", "n", "c", "r", "a", "w">>

\* The inputs of the calls.
QualityInputs ==
    {AudioQualityMin, AudioQualityNormal, AudioQualityMax, <<>>,
     <<"M", "A", "X">>, <<"h", "i", "g", "h">>, ApiTrackQualityLow}
SignKeys == {<<"k", "1">>, <<"k", "2">>}
Timestamps == {<<"1", "7">>, <<"7", "1">>}
TrackIds == {<<"4", "2">>}
ApiQualities == {ApiTrackQualityLow, ApiTrackQualityNormal, ApiTrackQualityLossless}
ParamStrings ==
    {ts \o t \o q \o Codecs \o Transport :
        ts \in Timestamps, t \in TrackIds, q \in ApiQualities}
DataStrings == SeqsUpTo({"a", ","}, MaxLen) \cup ParamStrings

\* What the functions return for the inputs, as tables over the input sets.
SignatureOf ==
    [d \in DataStrings, k \in SignKeys |-> GenerateSignature(d, k)]
SignatureFromParamsOf ==
    [ts \in Timestamps, t \in TrackIds, q \in ApiQualities, k \in SignKeys |->
        GenerateSignatureFromParams(ts, t, q, Codecs, Transport, k)]

Call(fn, args, key, out, err) ==
    [fn |-> fn, args |-> args, key |-> key, out |-> out, err |-> err]

\* A client calls c.GetAPIQuality(quality).
CallGetAPIQuality ==
    /\ \E q \in QualityInputs :
         lastCall' = Call("GetAPIQuality", <<q>>, <<>>, GetAPIQuality(q), "")
    /\ prevCall' = lastCall
    /\ UNCHANGED <<authVars, dlVars, conVars>>

\* A client calls crypto.GenerateSignature(dataString, signKey).
CallGenerateSignature ==
    /\ \E d \in DataStrings, k \in SignKeys :
         lastCall' = Call("GenerateSignature", <<d>>, k, SignatureOf[d, k], "")
    /\ prevCall' = lastCall
    /\ UNCHANGED <<authVars, dlVars, conVars>>

\* A client calls crypto.GenerateSignatureFromParams(...).
CallGenerateSignatureFromParams ==
    /\ \E ts \in Timestamps, t \in TrackIds, q \in ApiQualities, k \in SignKeys :
         lastCall' = Call("GenerateSignatureFromParams",
                          <<ts, t, q, Codecs, Transport>>, k,
                          SignatureFromParamsOf[ts, t, q, k], "")
    /\ prevCall' = lastCall
    /\ UNCHANGED <<authVars, dlVars, conVars>>

InitSign == InitSession /\ InitClient /\ InitCalls /\ InitWorkers /\ pc = "api"

NextSign ==
    \/ CallGetAPIQuality
    \/ CallGenerateSignature
    \/ CallGenerateSignatureFromParams

SpecSign == InitSign /\ [][NextSign]_vars

(***************************************************************************)
(* Properties of GetAPIQuality and of the signature.                       *)
(***************************************************************************)
\* C11: GetAPIQuality maps min to lq, normal to nq, max to lossless and every
\* other input to lossless.
C11_QualityMapping ==
    lastCall.fn = "GetAPIQuality" =>
        LET q == lastCall.args[1]
        IN  /\ q = <<"m", "i", "n">> => lastCall.out = <<"l", "q">>
            /\ q = <<"n", "o", "r", "m", "a", "l">> => lastCall.out = <<"n", "q">>
            /\ q \notin {<<"m", "i", "n">>, <<"n", "o", "r", "m", "a", "l">>}
                 => lastCall.out = <<"l", "o", "s", "s", "l", "e", "s", "s">>

C11_Witness ==
    /\ lastCall.fn = "GetAPIQuality"
    /\ lastCall.args[1] = <<"h", "i", "g", "h">>
    /\ lastCall.out = <<"l", "o", "s", "s", "l", "e", "s", "s">>
    /\ prevCall.fn = "GetAPIQuality"
    /\ prevCall.args[1] = <<"m", "i", "n">>
    /\ prevCall.out = <<"l", "q">>

\* The call is one of GenerateSignature.
IsSignature(c) == c.fn = "GenerateSignature"

\* s without its commas.
NoCommas(s) == SelectSeq(s, LAMBDA c : c # ",")

\* C12: a data string and the same string without its commas get the same
\* signature under the same key.
C12_CommasIgnored ==
    (/\ IsSignature(prevCall)
     /\ IsSignature(lastCall)
     /\ prevCall.key = lastCall.key
     /\ NoCommas(prevCall.args[1]) = NoCommas(lastCall.args[1]))
        => prevCall.out = lastCall.out

C12_Witness ==
    /\ IsSignature(prevCall)
    /\ IsSignature(lastCall)
    /\ prevCall.key = lastCall.key
    /\ prevCall.args[1] = <<",", "a", ",">>
    /\ lastCall.args[1] = <<"a">>
    /\ prevCall.out = lastCall.out

\* C13: GenerateSignatureFromParams returns what GenerateSignature returns for
\* ts, trackId, quality, codecs and transports joined in this order.
C13_FromParamsIsConcatenation ==
    (/\ IsSignature(prevCall)
     /\ lastCall.fn = "GenerateSignatureFromParams"
     /\ prevCall.key = lastCall.key
     /\ prevCall.args[1] = lastCall.args[1] \o lastCall.args[2] \o lastCall.args[3]
                               \o lastCall.args[4] \o lastCall.args[5])
        => prevCall.out = lastCall.out

C13_Witness ==
    /\ IsSignature(prevCall)
    /\ lastCall.fn = "GenerateSignatureFromParams"
    /\ prevCall.key = lastCall.key
    /\ prevCall.args[1] = lastCall.args[1] \o lastCall.args[2] \o lastCall.args[3]
                              \o lastCall.args[4] \o lastCall.args[5]
    /\ lastCall.args[1] = <<"1", "7">>
    /\ prevCall.out = lastCall.out

\* C14: a signature contains no "=".
C14_NoPadding ==
    lastCall.fn \in {"GenerateSignature", "GenerateSignatureFromParams"}
        => \A i \in 1..Len(lastCall.out) : lastCall.out[i] # "="

\* The 32 bytes of the digest make 44 characters, the last of them padding.
C14_Witness ==
    /\ IsSignature(lastCall)
    /\ "," \in Range(lastCall.args[1])
    /\ Len(lastCall.out) = 43

HexDigits ==
    <<"0", "1", "2", "3", "4", "5", "6", "7", "8", "9",
      "a", "b", "c", "d", "e", "f", "A", "B", "C", "D", "E", "F">>

IsHexDigit(c) == c \in Range(HexDigits)

\* The value of a hex digit.
HexValue(c) ==
    LET i == IndexOf(HexDigits, c) IN IF i > 16 THEN i - 7 ELSE i - 1

\* hex.DecodeString(s): the pairs are decoded from the left; a character that is
\* no hex digit is an error, and so is a last character without a partner.
DecodeString(s) ==
    LET pairs == Len(s) \div 2
    IN  IF \E i \in 1..(2 * pairs) : ~IsHexDigit(s[i])
        THEN [err |-> "invalid byte", bytes |-> <<>>]
        ELSE IF Len(s) % 2 = 1
        THEN [err |-> IF IsHexDigit(s[Len(s)]) THEN "odd length hex string"
                      ELSE "invalid byte",
              bytes |-> <<>>]
        ELSE [err |-> "",
              bytes |-> [i \in 1..pairs |->
                            16 * HexValue(s[2 * i - 1]) + HexValue(s[2 * i])]]

\* A cipher that takes a key of any length but the empty one.
KeySizeAny(n) == n > 0

\* aes.NewCipher(key) takes keys of 16, 24 and 32 bytes.
KeySizeOK(n) == n \in {16, 24, 32}

\* aes.BlockSize
BlockSize == 16

\* The sum of two bytes, in place of their exclusive or.
AddByte(a, b) == (a + b) % 256

\* The exclusive or of two bytes.
RECURSIVE XorByte(_, _)
XorByte(a, b) ==
    IF a = 0 /\ b = 0 THEN 0
    ELSE (((a % 2) + (b % 2)) % 2) + 2 * XorByte(a \div 2, b \div 2)

\* AES itself belongs to the standard library and is not computed here. In its
\* place stands a mixing function with the properties of a CTR key stream: byte
\* n (from 0) is taken from the block that the key makes of the counter, the
\* counter starts at the IV and advances by one for each block of BlockSize
\* bytes, and nothing else enters. The IV is all zero.
KeyStreamByte(key, n) ==
    LET counter == n \div BlockSize
        offset == n % BlockSize
    IN  (Absorb(key) * 7 + (counter + 1) * 131 + offset * offset * 17 + 89) % 256

\* A key stream applied to the whole blocks of src only.
XORKeyStreamWholeBlocks(key, src) ==
    [i \in 1..(BlockSize * (Len(src) \div BlockSize)) |->
        XorByte(src[i], KeyStreamByte(key, i - 1))]

\* decrypted := make([]byte, len(encryptedData));
\* stream.XORKeyStream(decrypted, encryptedData)
XORKeyStream(key, src) ==
    [i \in 1..Len(src) |-> XorByte(src[i], KeyStreamByte(key, i - 1))]

\* The result [out, err]; a nil slice is the empty sequence.
DecryptAesCtr(encryptedData, hexKey) ==
    LET decoded == DecodeString(hexKey)
    IN  IF decoded.err # ""
        THEN [out |-> <<>>, err |-> "error decoding key"]
        ELSE IF ~KeySizeOK(Len(decoded.bytes))
        THEN [out |-> <<>>, err |-> "error creating cipher"]
        ELSE [out |-> XORKeyStream(decoded.bytes, encryptedData), err |-> ""]

\* n copies of the string p.
Repeat(p, n) == [i \in 1..(n * Len(p)) |-> p[((i - 1) % Len(p)) + 1]]

\* Keys: of 16, 24 and 32 bytes, in lower and in upper case; of 0, 15, 17 and 20
\* bytes; one digit short of 16 bytes; with a character that is no hex digit.
Hex16 == Repeat(<<"0", "1", "a", "f">>, 8)
Hex24 == Repeat(<<"9", "c", "e", "2">>, 12)
Hex32 == Repeat(<<"7", "b", "d", "4">>, 16)
Hex16Upper == Repeat(<<"A", "F", "0", "C">>, 8)
HexKeys ==
    {Hex16, Hex24, Hex32, Hex16Upper, <<>>,
     SubSeq(Hex16, 1, 30), SubSeq(Hex24, 1, 34), SubSeq(Hex24, 1, 40),
     SubSeq(Hex16, 1, 31), SubSeq(Hex16, 1, 31) \o <<"g">>,
     <<"z">> \o SubSeq(Hex16, 1, 31)}

\* Ciphertexts: the short ones, and one that runs into a second block.
LongData == [i \in 1..(BlockSize + 1) |-> (i * 37) % 256]
Ciphertexts == SeqsUpTo({0, 90, 255}, MaxLen) \cup {LongData}

\* A client calls crypto.DecryptAesCtr(encryptedData, hexKey); the calls after
\* the first one take up what it returned (CallDecryptAesCtrAgain).
CallDecryptAesCtr ==
    /\ lastCall = NoCall
    /\ \E x \in Ciphertexts, k \in HexKeys :
         LET r == DecryptAesCtr(x, k)
         IN  lastCall' = Call("DecryptAesCtr", <<x>>, k, r.out, r.err)
    /\ prevCall' = lastCall
    /\ UNCHANGED <<authVars, dlVars, conVars>>

\* The client calls it again on what it returned, with the same key.
CallDecryptAesCtrAgain ==
    /\ lastCall.fn = "DecryptAesCtr"
    /\ lastCall.err = ""
    /\ LET r == DecryptAesCtr(lastCall.out, lastCall.key)
       IN  lastCall' = Call("DecryptAesCtr", <<lastCall.out>>, lastCall.key,
                            r.out, r.err)
    /\ prevCall' = lastCall
    /\ UNCHANGED <<authVars, dlVars, conVars>>

InitCipher == InitSession /\ InitClient /\ InitCalls /\ InitWorkers /\ pc = "api"

NextCipher ==
    \/ CallDecryptAesCtr
    \/ CallDecryptAesCtrAgain

SpecCipher == InitCipher /\ [][NextCipher]_vars

(***************************************************************************)
(* Properties of DecryptAesCtr.                                            *)
(***************************************************************************)
\* C16: under a valid key the output of DecryptAesCtr is as long as its input,
\* the empty input included.
C16_LengthPreserved ==
    (lastCall.fn = "DecryptAesCtr" /\ lastCall.err = "")
        => Len(lastCall.out) = Len(lastCall.args[1])

C16_Witness ==
    /\ lastCall.fn = "DecryptAesCtr"
    /\ lastCall.err = ""
    /\ prevCall = NoCall
    /\ Len(lastCall.args[1]) = 17
    /\ Len(lastCall.out) = 17

\* C17: DecryptAesCtr applied to its own output under the same key gives the
\* input back.
C17_RoundTrip ==
    (/\ prevCall.fn = "DecryptAesCtr"
     /\ lastCall.fn = "DecryptAesCtr"
     /\ prevCall.err = ""
     /\ lastCall.key = prevCall.key
     /\ lastCall.args[1] = prevCall.out)
        => (lastCall.err = "" /\ lastCall.out = prevCall.args[1])

C17_Witness ==
    /\ prevCall.fn = "DecryptAesCtr"
    /\ lastCall.fn = "DecryptAesCtr"
    /\ prevCall.err = ""
    /\ lastCall.args[1] = prevCall.out
    /\ prevCall.out # prevCall.args[1]
    /\ Len(prevCall.args[1]) = 17
    /\ lastCall.out = prevCall.args[1]

\* The hex keys of 16, 24 or 32 bytes among the inputs.
SupportedKeys ==
    {k \in HexKeys :
        /\ Len(k) \in {32, 48, 64}
        /\ \A i \in 1..Len(k) :
             k[i] \in {"0", "1", "2", "3", "4", "5", "6", "7", "8", "9",
                       "a", "b", "c", "d", "e", "f", "A", "B", "C", "D", "E", "F"}}

\* C18: DecryptAesCtr fails and returns no plaintext when the key is not hex or
\* is not 16, 24 or 32 bytes long, and succeeds for every other key.
C18_KeyFormat ==
    lastCall.fn = "DecryptAesCtr" =>
        IF lastCall.key \in SupportedKeys THEN lastCall.err = ""
        ELSE lastCall.err # "" /\ lastCall.out = <<>>

C18_Witness ==
    /\ lastCall.fn = "DecryptAesCtr"
    /\ Len(lastCall.key) = 30
    /\ Len(lastCall.args[1]) = 17
    /\ lastCall.err = "error creating cipher"
    /\ lastCall.out = <<>>

(***************************************************************************)
(* Properties of the authorizer's flow.                                    *)
(***************************************************************************)
\* C21: the page fetch, every POST and every request of GetToken go through
\* the client, and with it the cookie jar, that NewAuthSession made; the
\* session's client is never another one.
C21_OneClientAndJar ==
    /\ client = [jar |-> "session jar", timeout |-> 0]
    /\ \A i \in 1..Len(requests) : requests[i].client.jar = "session jar"
    /\ lastHop.kind # "" => lastHop.client.jar = "session jar"

C21_Witness ==
    /\ pc = "done"
    /\ Sent(URLPassportAuth)
    /\ Sent(URLChallengeCommit)
    /\ hops > 1
    /\ lastHop.kind = "302"
    /\ lastHop.client.jar = "session jar"

(***************************************************************************)
(* The file names DownloadTrack chooses.                                   *)
(***************************************************************************)
\* The double quote, which a string of this module cannot hold, as a character.
DoubleQuote == "<dq>"

\* The characters CleanFileName replaces, and those strings.TrimSpace removes
\* (of the white space only blank and tab are among the inputs).
InvalidChars == {"\\", "/", ":", "*", "?", DoubleQuote, "<", ">", "|"}
Spaces == {" ", "\t"}

\* strings.TrimSpace(s)
RECURSIVE TrimSpace(_)
TrimSpace(s) ==
    IF s = <<>> THEN s
    ELSE IF Head(s) \in Spaces THEN TrimSpace(Tail(s))
    ELSE IF s[Len(s)] \in Spaces THEN TrimSpace(SubSeq(s, 1, Len(s) - 1))
    ELSE s

\* utils.CleanFileName(name)
CleanFileName(name) ==
    LET clean == TrimSpace([i \in 1..Len(name) |->
                               IF name[i] \in InvalidChars THEN "_" ELSE name[i]])
    IN  IF clean = <<>> THEN <<"U", "n", "k", "n", "o", "w", "n">> ELSE clean

\* fmt.Sprintf("%s - %s (%s) [%s].m4a", safeTitle, safeArtist, safeAlbums, trackID)
FileName(t, a, al, id) ==
    CleanFileName(t) \o <<" ", "-", " ">> \o CleanFileName(a) \o <<" ", "(">>
        \o CleanFileName(al) \o <<")", " ", "[">> \o id \o <<"]", ".", "m", "4", "a">>

\* A temporary file named without the identifier.
EncryptedPathFixed(tempID) ==
    <<"e", "n", "c", "r", "y", "p", "t", "e", "d", ".", "r", "a", "w">>

\* fmt.Sprintf("encrypted_%s.raw", tempID)
EncryptedPath(tempID) == <<"e", "n", "c", "r", "y", "p", "t", "e", "d", "_">> \o tempID \o <<".", "r", "a", "w">>

\* A path that steps aside when the previous run wrote the same one.
OutputPathBesideExisting(outputDir, cwd, fileName) ==
    LET dir == IF outputDir = <<>> THEN cwd ELSE outputDir
        path == dir \o <<"/">> \o fileName
    IN  IF lastCall.fn = "DownloadTrack" /\ lastCall.out.output = path
        THEN path \o <<"(", "1", ")">> ELSE path

\* The empty outputDir is the working directory; filepath.Join(outputDir,
\* fileName), for elements that filepath.Clean leaves as they are.
OutputPath(outputDir, cwd, fileName) ==
    LET dir == IF outputDir = <<>> THEN cwd ELSE outputDir
    IN  dir \o <<"/">> \o fileName

\* The inputs: metadata as the lookups resolved it, track IDs, output
\* directories, the working directory, the UUIDs uuid.New may draw.
Titles == {<<"a">>, <<" ", "a", "/", ":", "\t">>, <<" ">>}
Artists == {<<"b">>}
Albums == {<<"c", "?">>}
DownloadIds == {<<"4", "2">>, <<"7">>}
OutputDirs == {<<>>, <<"o", "u", "t">>}
WorkingDir == <<"w", "d">>
TempIds == {<<"u", "1">>, <<"u", "2">>}

\* A run of c.DownloadTrack(trackID, outputDir, quality) up to the choice of
\* its two paths.
CallDownloadTrack ==
    /\ \E t \in Titles, a \in Artists, al \in Albums, id \in DownloadIds,
          dir \in OutputDirs, tempID \in TempIds :
         lastCall' = Call("DownloadTrack", <<dir, t, a, al, id>>, tempID,
                          [output |-> OutputPath(dir, WorkingDir, FileName(t, a, al, id)),
                           encrypted |-> EncryptedPath(tempID)], "")
    /\ prevCall' = lastCall
    /\ UNCHANGED <<authVars, dlVars, conVars>>

(***************************************************************************)
(* Client.GetDownloadInfo: the query of the get-file-info request, as the  *)
(* pairs of key and value given to query.Add.                              *)
(***************************************************************************)
DecimalDigits == <<"0", "1", "2", "3", "4", "5", "6", "7", "8", "9">>

\* strconv.FormatInt(n, 10) of a number that is not negative.
RECURSIVE FormatInt(_)
FormatInt(n) ==
    IF n < 10 THEN <<DecimalDigits[n + 1]>>
    ELSE FormatInt(n \div 10) \o <<DecimalDigits[(n % 10) + 1]>>

\* The timestamp of the request before, when the client has sent one.
TimestampKept(now) ==
    IF lastCall.fn = "GetDownloadInfo" THEN lastCall.out["ts"] ELSE FormatInt(now)

\* ts := strconv.FormatInt(time.Now().Unix(), 10)
Timestamp(now) == FormatInt(now)

\* The data string with the track before the timestamp.
DataStringTrackFirst(ts, track, quality) ==
    track \o ts \o quality \o Codecs \o Transport

\* dataString := ts + trackID + string(quality) + api.Codecs + api.Transport
DataString(ts, track, quality) == ts \o track \o quality \o Codecs \o Transport

\* The params map once the signature is stored in it; every entry of the map
\* is added to the query.
GetFileInfoQuery(now, track, quality, signKey) ==
    LET ts == Timestamp(now)
        params == [key \in {"ts", "trackId", "quality", "codecs", "transports"} |->
                      CASE key = "ts" -> ts
                        [] key = "trackId" -> track
                        [] key = "quality" -> quality
                        [] key = "codecs" -> Codecs
                        [] key = "transports" -> Transport]
        dataString == DataString(ts, track, quality)
    IN  ("sign" :> GenerateSignature(dataString, signKey)) @@ params

\* time.Now().Unix() at the calls.
UnixTimes == {17, 71}

\* A client with the given signing key calls c.GetDownloadInfo(trackID, quality);
\* the call is recorded with its arguments and the time it read.
CallGetDownloadInfo ==
    /\ lastCall = NoCall
    /\ \E now \in UnixTimes, track \in TrackIds, quality \in ApiQualities,
          signKey \in SignKeys :
         lastCall' = Call("GetDownloadInfo", <<track, quality, now>>, signKey,
                          GetFileInfoQuery(now, track, quality, signKey), "")
    /\ UNCHANGED <<authVars, dlVars, prevCall, conVars>>

\* The tracks of a second fetch.
NextTrackIds == TrackIds \cup {<<"4", "3">>}

\* The same client calls c.GetDownloadInfo again, at a time of its own.
CallGetDownloadInfoAgain ==
    /\ lastCall.fn = "GetDownloadInfo"
    /\ prevCall = NoCall
    /\ \E now \in UnixTimes, track \in NextTrackIds, quality \in ApiQualities :
         lastCall' = Call("GetDownloadInfo", <<track, quality, now>>, lastCall.key,
                          GetFileInfoQuery(now, track, quality, lastCall.key), "")
    /\ prevCall' = lastCall
    /\ UNCHANGED <<authVars, dlVars, conVars>>

InitPath == InitSession /\ InitClient /\ InitCalls /\ InitWorkers /\ pc = "api"

NextPath == CallDownloadTrack \/ CallGetDownloadInfo \/ CallGetDownloadInfoAgain

SpecPath == InitPath /\ [][NextPath]_vars

MusicClient == [jar |-> "", timeout |-> 30]

\* The client each request of DownloadTrack goes through: c.httpClient.Do for
\* the three API requests, http.Get, that is http.DefaultClient, for the payload.
DownloadClient(req) == IF req = "payload" THEN DefaultClient ELSE MusicClient

\* C23: every request of the Music Client and of the AuthSession is made under
\* the timeout of 30 seconds.
C23_EveryCallTimed ==
    /\ \A i \in 1..Len(dlRequests) : DownloadClient(dlRequests[i]).timeout = 30
    /\ \A i \in 1..Len(requests) : requests[i].client.timeout = 30
    /\ lastHop.kind # "" => lastHop.client.timeout = 30

\* The last request of the log is for u.
LastRequest(u) == Len(requests) > 0 /\ requests[Len(requests)].url = u

\* The method that sent the last request returned a response with status ok.
ReturnedOk == ret.err = "" /\ ret.status = "ok"

\* C24: after a password response with status ok the next request is
\* challenge/submit if the state is auth_challenge; otherwise the flow is in
\* GetToken, started on the response's redirect URL, and sends no POST; and
\* challenge/submit is sent in no other situation.
C24_ChallengeIffState ==
    [][/\ (LastRequest(URLCommitPassword) /\ ReturnedOk) =>
             IF ret.state = "auth_challenge"
             THEN Requested(URLChallengeSubmit)
             ELSE /\ pc = "GetToken"
                  /\ requests' = requests
                  /\ hops = 0 => gtURL = ret.redirect
       /\ Requested(URLChallengeSubmit) =>
             /\ LastRequest(URLCommitPassword)
             /\ ReturnedOk
             /\ ret.state = "auth_challenge"]_vars

C24_Witness ==
    /\ pc = "done"
    /\ LastRequest(URLCommitPassword)
    /\ ~Sent(URLChallengeSubmit)
    /\ hops > 0
    /\ token = "tokA"

\* The requests of the two-factor sub-path, in their order.
TwoFactorOrder == <<URLChallengeSubmit, URLSendPush, URLChallengeCommit>>

\* C25: what follows the password request in the log is a beginning of
\* challenge/submit, send_push, challenge/commit, each once; challenge/commit is
\* sent only after send_push returned ok; GetToken is entered in this sub-path
\* only with the retpath of a challenge/commit that returned ok.
C25_TwoFactorOrder ==
    /\ [](\A i \in 1..Len(requests) :
             requests[i].url = URLCommitPassword =>
                 /\ Len(requests) - i <= Len(TwoFactorOrder)
                 /\ \A j \in 1..(Len(requests) - i) :
                        requests[i + j].url = TwoFactorOrder[j])
    /\ [][/\ Requested(URLChallengeCommit) => (LastRequest(URLSendPush) /\ ReturnedOk)
          /\ Requested(URLSendPush) => (LastRequest(URLChallengeSubmit) /\ ReturnedOk)
          /\ (pc # "GetToken" /\ pc' = "GetToken" /\ Sent(URLChallengeSubmit)) =>
                /\ Requested(URLChallengeCommit)
                /\ ret'.err = ""
                /\ ret'.status = "ok"
                /\ gtURL' = ret'.redirect]_vars

C25_Witness ==
    /\ pc = "done"
    /\ LastRequest(URLChallengeCommit)
    /\ Sent(URLSendPush)
    /\ hops > 0
    /\ token = "tokA"

\* The 3xx statuses that carry a Location (net/http's redirect statuses).
RedirectKinds == {"301", "302", "303", "307", "308"}

\* C26: a response of GetToken with a redirect status whose Location carries
\* access_token= in its fragment ends the call with that fragment's token and
\* a nil error, no further hop pending.
C26_RedirectFragmentToken ==
    (lastHop.kind \in RedirectKinds /\ lastHop.location = LocFragment) =>
        /\ gtURL = Idle
        /\ ret.err = ""
        /\ ret.token = "tokA"

(***************************************************************************)
(* AuthSession.GetToken: the token in the body of a page.  The body is a   *)
(* sequence of characters.                                                 *)
(***************************************************************************)
AccessTokenKey == <<"a", "c", "c", "e", "s", "s", "_", "t", "o", "k", "e", "n", "=">>

\* strings.Index: the offset of the first occurrence of substr in str, -1 when
\* there is none.
Index(str, substr) ==
    LET hits == {i \in 0..(Len(str) - Len(substr)) :
                    SubSeq(str, i + 1, i + Len(substr)) = substr}
    IN  IF hits = {} THEN -1 ELSE CHOOSE i \in hits : \A j \in hits : i <= j

\* str[lo:]
SliceFrom(str, lo) == SubSeq(str, lo + 1, Len(str))

\* The run-time check of str[lo:hi].
InBounds(str, lo, hi) == 0 <= lo /\ lo <= hi /\ hi <= Len(str)

SliceOutOfRange == "panic: slice bounds out of range"

\* The search for "&" starting at the beginning of the body.
AmpIndexFromStart(bodyStr, startIdx) == Index(bodyStr, <<"&">>)

\* strings.Index(bodyStr[startIdx:], "&")
AmpIndex(bodyStr, startIdx) == Index(SliceFrom(bodyStr, startIdx), <<"&">>)

\* What GetToken returns for a body it has read: the token and the error.
BodyAccessToken(bodyStr) ==
    IF Index(bodyStr, AccessTokenKey) # -1
    THEN LET startIdx == Index(bodyStr, AccessTokenKey)
             found == AmpIndex(bodyStr, startIdx)
             endIdx == IF found = -1 THEN Len(bodyStr) - startIdx ELSE found
         IN  IF InBounds(bodyStr, startIdx + 13, startIdx + endIdx)
             THEN [out |-> SubSeq(bodyStr, startIdx + 13 + 1, startIdx + endIdx),
                   err |-> ""]
             ELSE [out |-> <<>>, err |-> SliceOutOfRange]
    ELSE [out |-> <<>>, err |-> "access token not found"]

\* Bodies: text without the key, the key between two texts, the key twice.
BodyChars == {"a", "&"}

BodyTexts == SeqsUpTo(BodyChars, MaxLen)

PageBodies ==
    BodyTexts
    \cup {p \o AccessTokenKey \o q : p \in BodyTexts, q \in BodyTexts}
    \cup {p \o AccessTokenKey \o q \o AccessTokenKey :
             p \in SeqsUpTo(BodyChars, 1), q \in SeqsUpTo(BodyChars, 1)}

\* GetToken reads the body of a response that is no 302.
CallGetTokenBody ==
    /\ lastCall = NoCall
    /\ \E bodyStr \in PageBodies :
          lastCall' = Call("GetToken", <<bodyStr>>, <<>>,
                           BodyAccessToken(bodyStr).out, BodyAccessToken(bodyStr).err)
    /\ UNCHANGED <<authVars, dlVars, prevCall, conVars>>

InitBody == InitSession /\ InitClient /\ InitCalls /\ InitWorkers /\ pc = "api"

NextBody == CallGetTokenBody

SpecBody == InitBody /\ [][NextBody]_vars

\* C27: for a body containing access_token=, GetToken returns without error
\* the text that follows the first occurrence of the key, holds no '&' and
\* stops at the next '&' or at the end of the body; no slice is out of range.
C27_BodyTokenUpToAmp ==
    lastCall.fn = "GetToken" =>
        LET b == lastCall.args[1]
            n == Len(AccessTokenKey)
            at == {p \in 1..(Len(b) - n + 1) : SubSeq(b, p, p + n - 1) = AccessTokenKey}
        IN  /\ lastCall.err # SliceOutOfRange
            /\ at # {} =>
                 LET p == CHOOSE x \in at : \A y \in at : x <= y
                     t == lastCall.out
                     next == p + n + Len(t)
                 IN  /\ lastCall.err = ""
                     /\ next <= Len(b) + 1
                     /\ SubSeq(b, p + n, next - 1) = t
                     /\ "&" \notin Range(t)
                     /\ next <= Len(b) => b[next] = "&"

C27_Witness ==
    /\ lastCall.fn = "GetToken"
    /\ lastCall.args[1] = <<"&", "a">> \o AccessTokenKey \o <<"a", "&", "a">>
    /\ lastCall.out = <<"a">>
    /\ lastCall.err = ""

(***************************************************************************)
(* AuthSession.GetInitialCSRFToken: the scan of the body, extractor by     *)
(* extractor.  The body is a sequence of characters.                       *)
(***************************************************************************)
\* The literal patterns, in the order of the list.
patterns ==
    <<
       [name |-> "input-field", offset |-> 24,
        search |-> <<"n", "a", "m", "e", "=", DoubleQuote, "c", "s", "r", "f", "_", "t",
                "o", "k", "e", "n", DoubleQuote, " ", "v", "a", "l",
                "u", "e", "=", DoubleQuote>>],
       [name |-> "json-field", offset |-> 14,
        search |-> <<DoubleQuote, "c", "s", "r", "f", "_", "t", "o", "k", "e", "n",
                DoubleQuote, ":", DoubleQuote>>],
       [name |-> "data-attribute", offset |-> 11,
        search |-> <<"d", "a", "t", "a", "-", "c", "s", "r", "f", "=", DoubleQuote>>],
       [name |-> "redux-store", offset |-> 8,
        search |-> <<DoubleQuote, "c", "s", "r", "f", DoubleQuote, ":", DoubleQuote>>],
       [name |-> "common-store", offset |-> 16,
        search |-> <<DoubleQuote, "c", "o", "m", "m", "o", "n", DoubleQuote, ":", "{",
                DoubleQuote, "c", "s", "r", "f", DoubleQuote, ":",
                DoubleQuote>>],
       [name |-> "csrf-script", offset |-> 13,
        search |-> <<"c", "s", "r", "f", "_", "t", "o", "k", "e", "n", " ", "=", " ",
                DoubleQuote>>],
       [name |-> "csrf-var", offset |-> 17,
        search |-> <<"v", "a", "r", " ", "c", "s", "r", "f", "_", "t", "o", "k", "e",
                "n", " ", "=", " ", DoubleQuote>>],
       [name |-> "csrf-const", offset |-> 19,
        search |-> <<"c", "o", "n", "s", "t", " ", "c", "s", "r", "f", "_", "t", "o",
                "k", "e", "n", " ", "=", " ", DoubleQuote>>],
       [name |-> "csrf-direct", offset |-> 13,
        search |-> <<"c", "s", "r", "f", "_", "t", "o", "k", "e", "n", ":", " ",
                DoubleQuote>>]
    >>

\* What one literal pattern extracts: nothing when the pattern or the closing
\* quote is missing, else the text between offset and the closing quote.
LiteralValue(pattern, bodyStr) ==
    LET found == Index(bodyStr, pattern.search)
        csrfStart == found + pattern.offset
        csrfEnd == Index(SliceFrom(bodyStr, csrfStart), <<DoubleQuote>>)
    IN  IF found = -1 THEN [found |-> FALSE, value |-> <<>>]
        ELSE IF csrfEnd = -1 THEN [found |-> FALSE, value |-> <<>>]
        ELSE [found |-> TRUE,
              value |-> SubSeq(bodyStr, csrfStart + 1, csrfStart + csrfEnd)]

\* The loop going through the list from its end.
PatternAtFromEnd(i) == patterns[Len(patterns) + 1 - i]

\* for _, pattern := range patterns
PatternAt(i) == patterns[i]

\* The loop over the literal patterns from the i-th on: whether it returned,
\* and s.csrfToken, which an empty value overwrites too.
RECURSIVE ScanLiterals(_, _, _)
ScanLiterals(bodyStr, i, tok) ==
    IF i > Len(patterns) THEN [done |-> FALSE, csrfToken |-> tok]
    ELSE LET v == LiteralValue(PatternAt(i), bodyStr)
         IN  IF v.found /\ Len(v.value) > 0 THEN [done |-> TRUE, csrfToken |-> v.value]
             ELSE ScanLiterals(bodyStr, i + 1, IF v.found THEN v.value ELSE tok)

\* The loop over the regular expressions from the i-th on; matches[i] is what
\* FindStringSubmatch of the i-th returns (<<>> : no match; the whole match,
\* then the groups).
RECURSIVE ScanRegexes(_, _, _)
ScanRegexes(matches, i, tok) ==
    IF i > Len(matches) THEN [done |-> FALSE, csrfToken |-> tok]
    ELSE IF Len(matches[i]) > 1 THEN [done |-> TRUE, csrfToken |-> matches[i][2]]
    ELSE IF Len(matches[i]) = 1 THEN [done |-> TRUE, csrfToken |-> matches[i][1]]
    ELSE ScanRegexes(matches, i + 1, tok)

\* A manual entry that takes the line whatever it holds.
ScanManualAcceptsEmpty(line, potentialTokens, choice, tok) ==
    [csrfToken |-> TrimSpace(line), err |-> ""]

\* The interactive end of the scan: the typed line, then the choice among the
\* potential tokens (choice.err : Scanf failed).
ScanManual(line, potentialTokens, choice, tok) ==
    LET input == TrimSpace(line)
    IN  IF input # <<>> THEN [csrfToken |-> input, err |-> ""]
        ELSE IF Len(potentialTokens) > 0 /\ choice.err
             THEN [csrfToken |-> tok, err |-> "failed to read choice"]
        ELSE IF Len(potentialTokens) > 0 /\ choice.n > 0
                /\ choice.n <= Len(potentialTokens)
             THEN [csrfToken |-> potentialTokens[choice.n], err |-> ""]
        ELSE [csrfToken |-> tok, err |-> "failed to find CSRF token"]

\* The scan: s.csrfToken afterwards, whether standard input was read, the error.
ScanCSRF(bodyStr, matches, line, potentialTokens, choice, old) ==
    LET lit == ScanLiterals(bodyStr, 1, old)
        rex == ScanRegexes(matches, 1, lit.csrfToken)
        man == ScanManual(line, potentialTokens, choice, rex.csrfToken)
    IN  IF lit.done THEN [csrfToken |-> lit.csrfToken, prompted |-> FALSE, err |-> ""]
        ELSE IF rex.done THEN [csrfToken |-> rex.csrfToken, prompted |-> FALSE, err |-> ""]
        ELSE [csrfToken |-> man.csrfToken, prompted |-> TRUE, err |-> man.err]

\* Pages: an occurrence of a pattern with a value and its closing quote, two
\* occurrences in either order, one with an empty value before another, one
\* without a closing quote, and text without any pattern.
Occurrence(i, v) == patterns[i].search \o v \o <<DoubleQuote>>

TwoPatterns == {1, 2, 5, 9}

LoginPages ==
    {<<>>, <<"x">>, patterns[1].search \o <<"v">>}
    \cup {Occurrence(i, v) : i \in 1..Len(patterns), v \in {<<>>, <<"v">>}}
    \cup {Occurrence(ij[1], <<"v">>) \o <<" ">> \o Occurrence(ij[2], <<"w">>) :
             ij \in {p \in TwoPatterns \X TwoPatterns : p[1] # p[2]}}
    \cup {Occurrence(ij[1], <<>>) \o <<" ">> \o Occurrence(ij[2], <<"w">>) :
             ij \in {<<1, 2>>, <<2, 1>>}}

NoMatch == <<>>

\* A match with one group, and a match of an expression without groups.
GroupMatch(k) == << <<"f", k>>, <<"g", k>> >>

FullMatch(k) == << <<"h", k>> >>

RegexMatches ==
    {<<NoMatch, NoMatch, NoMatch>>,
     <<GroupMatch("1"), NoMatch, NoMatch>>,
     <<NoMatch, FullMatch("2"), GroupMatch("3")>>,
     <<NoMatch, NoMatch, GroupMatch("3")>>}

TypedLines == {<<" ">>, <<"m", " ">>}

PotentialTokens == {<<>>, << <<"p", "1">>, <<"p", "2">> >>}

Choices == [err : {TRUE}, n : {0}] \cup [err : {FALSE}, n : {0, 2, 3}]

OldToken == <<"o">>

\* GetInitialCSRFToken scans a body it has read.
CallScanCSRF ==
    /\ lastCall = NoCall
    /\ \E bodyStr \in LoginPages, matches \in RegexMatches, line \in TypedLines,
          potentialTokens \in PotentialTokens, choice \in Choices,
          old \in {<<>>, OldToken} :
          LET r == ScanCSRF(bodyStr, matches, line, potentialTokens, choice, old)
          IN  lastCall' = Call("GetInitialCSRFToken",
                               <<bodyStr, matches, line, potentialTokens, choice, old>>,
                               <<>>,
                               [csrfToken |-> r.csrfToken, prompted |-> r.prompted],
                               r.err)
    /\ UNCHANGED <<authVars, dlVars, prevCall, conVars>>

(***************************************************************************)
(* AuthSession.StartAuth: the body of the response.  A body is a sequence  *)
(* of tokens: braces, blanks and the members of the JSON object.           *)
(***************************************************************************)
StartMembers == {"status:ok", "track_id:trkA", "auth_methods:password"}

StartBodies ==
    {<<>>, <<"{", "}">>, <<"{", " ", "}">>, <<"{">>, <<"x">>}
    \cup {<<"{">> \o ms \o <<"}">> :
             ms \in {<<"status:ok">>, <<"track_id:trkA">>,
                     <<"status:ok", "track_id:trkA">>,
                     <<"status:ok", "track_id:trkA", "auth_methods:password">>}}

\* The check for an empty response looking at the length only.
StartAuthEmptyBodyLenOnly(body) == Len(body) = 0

\* len(body) == 0 || string(body) == "{}"
StartAuthEmptyBody(body) == Len(body) = 0 \/ body = <<"{", "}">>

\* json.Unmarshal accepts an object of known members, blanks between them.
ValidObject(body) ==
    /\ Len(body) >= 2
    /\ body[1] = "{"
    /\ body[Len(body)] = "}"
    /\ \A i \in 2..(Len(body) - 1) : body[i] \in StartMembers \cup {" "}

\* The response as StartAuth takes it, from the body it has read.
StartResponseOf(body) ==
    LET none == [kind |-> "", status |-> "", track_id |-> "", csrf_token |-> "",
                 auth_methods |-> <<>>]
    IN  IF StartAuthEmptyBody(body) THEN [none EXCEPT !.kind = "empty"]
        ELSE IF ~ValidObject(body) THEN [none EXCEPT !.kind = "badjson"]
        ELSE [none EXCEPT
                 !.kind = "json",
                 !.status = IF "status:ok" \in Range(body) THEN "ok" ELSE "",
                 !.track_id = IF "track_id:trkA" \in Range(body) THEN "trkA" ELSE "",
                 !.auth_methods = IF "auth_methods:password" \in Range(body)
                                  THEN <<"password">> ELSE <<>>]

\* StartAuth on a session with the given trackID and auth methods reads a body.
CallStartAuth ==
    /\ lastCall = NoCall
    /\ \E body \in StartBodies, oldTrack \in {"", "trkB"},
          oldMethods \in {<<>>, <<"magic_x_token">>} :
          LET resp == StartResponseOf(body)
          IN  lastCall' = Call("StartAuth", <<body, oldTrack, oldMethods>>, <<>>,
                               [trackID |-> StartAuthTrackID(resp, oldTrack),
                                availableAuthMethods |->
                                    StartAuthMethods(resp, oldMethods)],
                               StartAuthReturn(resp).err)
    /\ UNCHANGED <<authVars, dlVars, prevCall, conVars>>

InitScan == InitSession /\ InitClient /\ InitCalls /\ InitWorkers /\ pc = "api"

NextScan == CallScanCSRF \/ CallStartAuth

SpecScan == InitScan /\ [][NextScan]_vars

\* The literal patterns that yield a non-empty value on a body, and the
\* regular expressions that match, by their places in the lists.
Yielding(bodyStr) ==
    {i \in 1..Len(patterns) :
        LiteralValue(patterns[i], bodyStr).found
        /\ LiteralValue(patterns[i], bodyStr).value # <<>>}

Matching(matches) == {i \in 1..Len(matches) : matches[i] # <<>>}

Least(S) == CHOOSE x \in S : \A y \in S : x <= y

\* C28: the token is that of the first literal pattern of the list yielding a
\* non-empty value; if there is none, that of the first regular expression
\* that matches; standard input is read only if no literal pattern yielded
\* and no regular expression matched; an error is returned only if moreover
\* nothing was typed.
C28_ExtractorOrder ==
    lastCall.fn = "GetInitialCSRFToken" =>
        LET bodyStr == lastCall.args[1]
            matches == lastCall.args[2]
            lits == Yielding(bodyStr)
            rexs == Matching(matches)
            m == matches[Least(rexs)]
        IN  /\ lits # {} =>
                 /\ lastCall.out.csrfToken =
                        LiteralValue(patterns[Least(lits)], bodyStr).value
                 /\ lastCall.err = ""
            /\ (lits = {} /\ rexs # {}) =>
                 /\ lastCall.out.csrfToken = m[Len(m)]
                 /\ lastCall.err = ""
            /\ lastCall.out.prompted <=> (lits = {} /\ rexs = {})
            /\ (lastCall.out.prompted /\ TrimSpace(lastCall.args[3]) # <<>>) =>
                 /\ lastCall.out.csrfToken = TrimSpace(lastCall.args[3])
                 /\ lastCall.err = ""
            /\ lastCall.err # "" =>
                 /\ lastCall.out.prompted
                 /\ TrimSpace(lastCall.args[3]) = <<>>

\* The csrf-direct pattern comes first in the page, the json-field pattern
\* first in the list; a regular expression matches too.
C28_Witness ==
    /\ lastCall.fn = "GetInitialCSRFToken"
    /\ lastCall.args[1] = Occurrence(9, <<"v">>) \o <<" ">> \o Occurrence(2, <<"w">>)
    /\ Matching(lastCall.args[2]) # {}
    /\ lastCall.out = [csrfToken |-> <<"w">>, prompted |-> FALSE]
    /\ lastCall.err = ""

\* C29: StartAuth answers a body that is empty or exactly {} with the
\* empty-response error and leaves trackID and the auth methods as they were;
\* it returns this error for no other body (a body that fails to parse gets
\* the parse error).
C29_EmptyResponseError ==
    lastCall.fn = "StartAuth" =>
        LET body == lastCall.args[1]
            isEmpty == body = <<>> \/ body = <<"{", "}">>
            emptyErr == "empty response received, possible CSRF token issue"
        IN  /\ isEmpty =>
                 /\ lastCall.err = emptyErr
                 /\ lastCall.out.trackID = lastCall.args[2]
                 /\ lastCall.out.availableAuthMethods = lastCall.args[3]
            /\ lastCall.err = emptyErr => isEmpty
            /\ lastCall.err = "failed to parse response" => ~isEmpty

C29_Witness ==
    /\ lastCall.fn = "StartAuth"
    /\ lastCall.args = <<<<"{", "}">>, "trkB", <<"magic_x_token">>>>
    /\ lastCall.err = "empty response received, possible CSRF token issue"
    /\ lastCall.out = [trackID |-> "trkB", availableAuthMethods |-> <<"magic_x_token">>]

\* C30: the query of a get-file-info request has the six parameters, and its
\* sign is the signature, under the client's key, of the values it carries as
\* ts, trackId, quality, codecs and transports, concatenated in this order.
C30_SignCoversSentValues ==
    lastCall.fn = "GetDownloadInfo" =>
        LET query == lastCall.out
        IN  /\ DOMAIN query = {"ts", "trackId", "quality", "codecs", "transports", "sign"}
            /\ query["sign"] =
                   GenerateSignature(query["ts"] \o query["trackId"] \o query["quality"]
                                        \o query["codecs"] \o query["transports"],
                                     lastCall.key)

C30_Witness ==
    /\ lastCall.fn = "GetDownloadInfo"
    /\ lastCall.out["ts"] = <<"7", "1">>
    /\ lastCall.out["trackId"] = <<"4", "2">>
    /\ lastCall.out["quality"] = ApiTrackQualityLossless
    /\ lastCall.out["codecs"] = Codecs
    /\ Len(lastCall.out["sign"]) = 43

\* The number a string of decimal digits writes.
RECURSIVE DecimalValue(_)
DecimalValue(digits) ==
    IF digits = <<>> THEN 0
    ELSE 10 * DecimalValue(SubSeq(digits, 1, Len(digits) - 1))
         + (CHOOSE d \in 0..9 : DecimalDigits[d + 1] = digits[Len(digits)])

\* C31: the request of every GetDownloadInfo call carries the time read during
\* that call, the track and quality of that call and the signature of these;
\* two calls of one client that differ in time, track or quality send
\* different signed requests.
C31_FreshSignedRequest ==
    /\ lastCall.fn = "GetDownloadInfo" =>
          /\ DecimalValue(lastCall.out["ts"]) = lastCall.args[3]
          /\ lastCall.out["trackId"] = lastCall.args[1]
          /\ lastCall.out["quality"] = lastCall.args[2]
          /\ lastCall.out["sign"] =
                 GenerateSignature(lastCall.out["ts"] \o lastCall.args[1]
                                      \o lastCall.args[2] \o Codecs \o Transport,
                                   lastCall.key)
    /\ (/\ prevCall.fn = "GetDownloadInfo"
        /\ lastCall.fn = "GetDownloadInfo"
        /\ prevCall.args # lastCall.args)
          => /\ prevCall.out # lastCall.out
             /\ prevCall.out["sign"] # lastCall.out["sign"]

C31_Witness ==
    /\ prevCall.fn = "GetDownloadInfo"
    /\ lastCall.fn = "GetDownloadInfo"
    /\ prevCall.args = <<<<"4", "2">>, ApiTrackQualityLossless, 17>>
    /\ lastCall.args = <<<<"4", "3">>, ApiTrackQualityLossless, 71>>
    /\ lastCall.out["ts"] = <<"7", "1">>
    /\ lastCall.out["trackId"] = <<"4", "3">>

\* The number of requests of one kind DownloadTrack has issued.
RequestCount(kind) ==
    Cardinality({i \in 1..Len(dlRequests) : dlRequests[i] = kind})

\* C32: DownloadTrack issues each of its requests at most once; a step runs
\* only if every step before it succeeded; while the call runs no error is
\* set, and it returns a nil error only when every step succeeded.
C32_FailFastNoRetry ==
    /\ \A kind \in {"tracks", "tracks/<id>", "get-file-info", "payload"} :
          RequestCount(kind) <= 1
    /\ Len(dlRequests) > 0 => dlRequests[1] = "tracks"
    /\ dpc \in {"PrepareDir", "Get", "Create", "Copy", "ReadFile", "Decrypt", "WriteFile"}
          => (RequestCount("get-file-info") = 1 /\ deferRegistered)
    /\ dpc \in {"Create", "Copy", "ReadFile", "Decrypt", "WriteFile"}
          => payloadStatus = 200
    /\ dpc \in {"Copy", "ReadFile", "Decrypt", "WriteFile"} => created
    /\ dpc \in {"ReadFile", "Decrypt", "WriteFile"} => copied
    /\ dpc = "WriteFile" => decrypted
    /\ dpc # "returned" => (result.err = "" /\ outputFile = "absent")
    /\ (dpc = "returned" /\ result.err = "") =>
          /\ RequestCount("tracks") = 1
          /\ RequestCount("get-file-info") = 1
          /\ RequestCount("payload") = 1
          /\ payloadStatus = 200
          /\ created
          /\ copied
          /\ decrypted
          /\ outputFile = "written"

\* The decryption fails after the payload was fetched and stored.
C32_Witness ==
    /\ dpc = "returned"
    /\ result.err = "error decrypting file"
    /\ dlRequests = <<"tracks", "get-file-info", "payload">>
    /\ copied
    /\ decryptCalled
    /\ outputFile = "absent"

\* C33: the secondary request tracks/<id> is sent only when the primary lookup
\* gave no title, no artist or no album, and a title, artist or album string
\* the primary lookup gave is still the one in use afterwards.
C33_FallbackFillsOnlyUnresolved ==
    /\ RequestCount("tracks/<id>") > 0 =>
          \/ trackInfo.title = Absent
          \/ Len(trackInfo.artists) = 0
          \/ Len(trackInfo.albums) = 0
    /\ trackInfo.title # Absent => title = trackInfo.title
    /\ Len(trackInfo.artists) > 0 => artist = Join(trackInfo.artists, " & ")
    /\ Len(trackInfo.albums) > 0 => albumsStr = Join(trackInfo.albums, ", ")

TrackOf == <<<<"4", "2">>, <<"7">>>>

\* os.Remove(path)
RemoveFile(fs, path) == {f \in fs : f.path # path}

\* os.Create(path), os.WriteFile(path, ...): the file is created or truncated.
CreateFile(fs, path, w) == RemoveFile(fs, path) \cup {[path |-> path, owner |-> w]}

\* The deferred function of call w: os.Stat(encryptedPath), then os.Remove.
WorkerCleanup(fs, w) == RemoveFile(fs, workers[w].encryptedPath)

\* The metadata and the download info are fetched with the Client's headers
\* and signing key; then uuid.New gives an identifier no other call got, the
\* cleanup is registered and the output path is formed.  A failure before that
\* returns with no cleanup registered.
W_Prepare(w) ==
    /\ workers[w].pc = "start"
    /\ \E ok \in BOOLEAN, t \in Titles, a \in Artists, al \in Albums,
          dir \in OutputDirs, tempID \in TempIds \ issuedIds :
          IF ok
          THEN /\ workers' = [workers EXCEPT ![w] =
                     [pc |-> "Create",
                      encryptedPath |-> EncryptedPath(tempID),
                      outputPath |->
                          OutputPath(dir, WorkingDir, FileName(t, a, al, TrackOf[w]))]]
               /\ issuedIds' = issuedIds \cup {tempID}
          ELSE /\ workers' = [workers EXCEPT ![w].pc = "returned"]
               /\ UNCHANGED issuedIds
    /\ UNCHANGED <<fileSystem, clientFields>>
    /\ UNCHANGED <<authVars, dlVars, libVars>>

\* os.Create(encryptedPath); a failure, like one of the fetch before it,
\* returns through the cleanup.
W_Create(w) ==
    /\ workers[w].pc = "Create"
    /\ \E ok \in BOOLEAN :
          IF ok
          THEN /\ fileSystem' = CreateFile(fileSystem, workers[w].encryptedPath, w)
               /\ workers' = [workers EXCEPT ![w].pc = "Write"]
          ELSE /\ fileSystem' = WorkerCleanup(fileSystem, w)
               /\ workers' = [workers EXCEPT ![w].pc = "returned"]
    /\ UNCHANGED <<issuedIds, clientFields>>
    /\ UNCHANGED <<authVars, dlVars, libVars>>

\* os.WriteFile(outputPath, ...) or a failure before it, then the return
\* through the cleanup.
W_Write(w) ==
    /\ workers[w].pc = "Write"
    /\ \E written \in BOOLEAN :
          fileSystem' =
              WorkerCleanup(IF written
                            THEN CreateFile(fileSystem, workers[w].outputPath, w)
                            ELSE fileSystem, w)
    /\ workers' = [workers EXCEPT ![w].pc = "returned"]
    /\ UNCHANGED <<issuedIds, clientFields>>
    /\ UNCHANGED <<authVars, dlVars, libVars>>

InitConcurrent == InitSession /\ InitClient /\ InitCalls /\ InitWorkers /\ pc = "api"

NextConcurrent ==
    \/ \E w \in Workers : W_Prepare(w)
    \/ \E w \in Workers : W_Create(w)
    \/ \E w \in Workers : W_Write(w)

SpecConcurrent == InitConcurrent /\ [][NextConcurrent]_vars

\* C35: no step of a call changes the Client's accessToken, signKey or
\* headers; two calls never have the same temporary path; a step of one call
\* removes or overwrites no file the other call created.
C35_NoSharedMutableState ==
    /\ [](\A v \in Workers, w \in Workers :
             (v # w /\ workers[v].encryptedPath # NoPath) =>
                 /\ workers[v].encryptedPath # workers[w].encryptedPath
                 /\ workers[v].encryptedPath # workers[w].outputPath)
    /\ [][/\ clientFields' = clientFields
          /\ \A w \in Workers :
                workers'[w] = workers[w] =>
                    {f \in fileSystem : f.owner = w} \subseteq fileSystem']_vars

\* The second call has returned and left its output; the temporary file of the
\* first call, created before, is still there.
C35_Witness ==
    /\ workers[1].pc = "Write"
    /\ workers[2].pc = "returned"
    /\ fileSystem = {[path |-> workers[1].encryptedPath, owner |-> 1],
                     [path |-> workers[2].outputPath, owner |-> 2]}
    /\ workers[2].encryptedPath # NoPath

\* C36: when a page is a literal pattern followed by a non-empty value and a
\* closing quote, and no pattern earlier in the list yields a value on it, the
\* pattern's offset is the length of its search text and the scan returns
\* with csrfToken set to that value.
C36_OffsetIsPatternLength ==
    lastCall.fn = "GetInitialCSRFToken" =>
        \A i \in 1..Len(patterns) :
            (/\ lastCall.args[1] = Occurrence(i, <<"v">>)
             /\ \A j \in 1..(i - 1) : j \notin Yielding(lastCall.args[1]))
                => /\ patterns[i].offset = Len(patterns[i].search)
                   /\ lastCall.out.csrfToken = <<"v">>
                   /\ lastCall.err = ""

\* C37: when the scan of GetInitialCSRFToken returns a nil error, csrfToken is
\* not empty, whichever extractor set it and whatever it held before.
C37_TokenSetOnSuccess ==
    (lastCall.fn = "GetInitialCSRFToken" /\ lastCall.err = "") =>
        Len(lastCall.out.csrfToken) > 0

\* A fresh session; a literal pattern matched an empty value, no regular
\* expression matched, nothing was typed and the second candidate was chosen.
C37_Witness ==
    /\ lastCall.fn = "GetInitialCSRFToken"
    /\ lastCall.args[1] = Occurrence(1, <<"v">>)
    /\ lastCall.args[6] = <<>>
    /\ lastCall.out = [csrfToken |-> <<"p", "2">>, prompted |-> TRUE]
    /\ lastCall.err = ""

\* C38: the authorizer reports success only after GetToken returned a nil
\* error together with a token that is not empty.
C38_SuccessHasToken ==
    pc = "done" =>
        /\ ret.err = ""
        /\ ret.token # ""
        /\ token # ""

\* C39: every POST the authorizer issues after StartAuth (commit_password,
\* challenge/submit, challenge/send_push, challenge/commit) carries a
\* non-empty track_id.
PostsAfterStartAuth ==
    {URLCommitPassword, URLChallengeSubmit, URLSendPush, URLChallengeCommit}

C39_PostsCarryTrackID ==
    \A i \in 1..Len(requests) :
        requests[i].url \in PostsAfterStartAuth => requests[i].track_id # ""

(***************************************************************************)
(* The headers of the requests of DownloadTrack.                           *)
(***************************************************************************)
\* api.BaseURL.
BaseURL == "https://api.music.yandex.net"

\* The three requests built on api.BaseURL: POST tracks, GET tracks/<id>,
\* GET get-file-info.
ApiRequests == {"tracks", "tracks/<id>", "get-file-info"}

\* A request without any header of the Client.
NoHeaders == [h \in {} |-> ""]

\* The payload fetch sent like the API requests, with the Client's headers.
RequestHeadersAlways(req) == clientFields.headers

\* The headers of a request: the API requests copy c.headers into the
\* request (req.Header.Set for each entry), http.Get(fileURL) sets none.
RequestHeaders(req) ==
    IF req \in ApiRequests THEN clientFields.headers ELSE NoHeaders

\* The server a request is sent to: api.BaseURL for the API requests, the
\* URL of the download info for the payload.
RequestTarget(req) == IF req \in ApiRequests THEN BaseURL ELSE PayloadURL

\* C40: the Authorization header is attached only to requests sent to the
\* base URL of the music API; the fetch of the payload carries no
\* Authorization header and no header holding the access token.
C40_TokenOnlyToApi ==
    \A i \in 1..Len(dlRequests) :
        LET headers == RequestHeaders(dlRequests[i])
        IN  /\ "Authorization" \in DOMAIN headers =>
                /\ RequestTarget(dlRequests[i]) = BaseURL
                /\ dlRequests[i] \in ApiRequests
            /\ dlRequests[i] = "payload" =>
                \A h \in DOMAIN headers :
                    headers[h] # "OAuth " \o clientFields.accessToken

\* The metadata, the fallback, the download info and the payload have all
\* been requested.
C40_Witness ==
    /\ \A req \in ApiRequests \cup {"payload"} : RequestCount(req) = 1
    /\ "Authorization" \in DOMAIN RequestHeaders(dlRequests[1])

====
